---- MODULE Spec2Model ----
(***************************************************************************)
(* Load-balancing reverse proxy of agent_infra: backend pools, strategy    *)
(* selection, the request pipeline of LoadBalancingProxy._proxy_request,   *)
(* the request tracker and the health probe.                               *)
(*                                                                         *)
(* Backend objects live in a heap (backend_objs); a pool lists the ids of  *)
(* its members.  A request handler keeps a reference to the object it      *)
(* acquired, so an object removed from its pool (and possibly registered   *)
(* again as a new object under the same host and port) stays reachable     *)
(* from the handler that still serves a request on it.                     *)
(***************************************************************************)
EXTENDS Integers, Sequences, FiniteSets, TLC

\* ------------------------------------------------------------------ bounds
MaxDetached == 1        \* Backend objects removed from their pool and still serving
MaxRequests == 2        \* proxied requests issued in one behaviour
MaxHandlers == 2        \* request handlers running concurrently

\* ------------------------------------------------------- program constants
TIMEOUT_THRESHOLD == 3  \* consecutive timeouts that flip healthy to False
EMA_NUM == 1            \* alpha = EMA_NUM / EMA_DEN = 0.2
EMA_DEN == 5

\* --------------------------------------------------------------- universes
None == 0
\* the (pool, host, port) identities that get registered
Endpoints == <<<<"m1", "localhost", 5900>>, <<"m1", "localhost", 5910>>>>
PoolNames == {Endpoints[i][1] : i \in 1..Len(Endpoints)}
Hosts == {Endpoints[i][2] : i \in 1..Len(Endpoints)}
Ports == {Endpoints[i][3] : i \in 1..Len(Endpoints)}
\* Heap slots.  The Backend that pool m holds for (host, port) lives in the slot
\* of that endpoint; a Backend removed from its pool while a handler still
\* serves a request on it moves to a slot above them until the handler returns.
HeapIds == 1..(Len(Endpoints) + MaxDetached)
SlotOf(model, host, port) ==
    CHOOSE i \in 1..Len(Endpoints) : Endpoints[i] = <<model, host, port>>
STRATEGIES == <<"round_robin", "least_connections", "least_latency", "least_load">>
DEFAULT_STRATEGY == "least_load"
StrategyNames == {STRATEGIES[i] : i \in 1..Len(STRATEGIES)} \cup {"random"}
UpstreamStatuses == {200, 503}
Latencies == {100}       \* upstream round-trip times, in ms
RequestModels == {"m1", "zz"}

VARIABLES
    backend_objs,     \* heap of Backend objects: Seq of records, id = position
    pools,            \* LoadBalancingProxy.pools: Seq of pool records, insertion order
    model_to_pool,    \* LoadBalancingProxy.model_to_pool: model id -> pool name
    strategy,         \* LoadBalancingProxy.strategy
    total_requests,   \* LoadBalancingProxy.total_requests
    total_errors,     \* LoadBalancingProxy.total_errors
    requests,         \* RequestTracker.requests: request id -> TrackedRequest
    task,             \* the running _proxy_request handlers
    responses,        \* history: request id -> what its handler answered on return
    session_turn_counters, \* RequestTracker._session_turn_counters
    now,              \* time.time(), in ticks
    last_cleanup,     \* when RequestTracker._cleanup_loop last woke (0: not started)
    issued,           \* history: session id -> the turn numbers submit issued, in order
    evicted,          \* history: request id -> why the eviction pass dropped it
    status_out,       \* what the last get_status call returned
    held,             \* history, per Backend object: acquires not yet released
    recent,           \* history, per Backend object: how its latest upstream calls ended
    known_endpoints,  \* ConnectionManager._poll_loop: the set `known_endpoints`
    procs,            \* SSHTunnelManager.procs: the (host, port) keys with a tunnel
    poll,             \* the poll thread: where it is in its tick and its locals
    calls,            \* history: the calls the poll thread made in its latest tick
    built,            \* the latest _build_endpoints call: its jobs and its list
    loops             \* LoadBalancingProxy._background_tasks: the supervised loops

vars == <<backend_objs, pools, model_to_pool, strategy, total_requests,
          total_errors, requests, task, responses, held, recent,
          session_turn_counters, now, last_cleanup, issued, evicted, status_out,
          known_endpoints, procs, poll, calls, built, loops>>

\* what only the poll thread writes
manager_state == <<known_endpoints, procs, poll, calls, built>>

\* what the request pipeline and the pool operations never write
tracker_clock == <<session_turn_counters, now, last_cleanup, issued, evicted,
                   status_out>>

\* ----------------------------------------------------------------- helpers
Max(a, b) == IF a >= b THEN a ELSE b

MinOf(S) == CHOOSE x \in S : \A y \in S : x <= y

Range(seq) == {seq[i] : i \in 1..Len(seq)}

\* fixed-point unit of avg_latency_ms: the EMA divides by EMA_DEN once per
\* successful request, so a power of EMA_DEN above the
\* number of requests keeps every value an integer
LatScale == EMA_DEN ^ 6

\* ------------------------------------------------------ backend.py: Backend
\* a heap slot that holds no object (never constructed, or unreachable and freed)
NoBackend ==
    [host |-> "", port |-> 0, healthy |-> FALSE,
     request_count |-> 0, error_count |-> 0, avg_latency_ms |-> 0,
     gpu_load |-> 0, inflight |-> 0, consecutive_timeouts |-> 0,
     partition |-> ""]

\* a new Backend that counts a request in flight
Backend_Busy(host, port, partition) ==
    [host |-> host, port |-> port, healthy |-> TRUE,
     request_count |-> 0, error_count |-> 0, avg_latency_ms |-> 0,
     gpu_load |-> 0, inflight |-> 1, consecutive_timeouts |-> 0,
     partition |-> partition]

Backend(host, port, partition) ==
    [host |-> host, port |-> port, healthy |-> TRUE,
     request_count |-> 0, error_count |-> 0, avg_latency_ms |-> 0,
     gpu_load |-> 0, inflight |-> 0, consecutive_timeouts |-> 0,
     partition |-> partition]

url(b) == <<b.host, b.port>>

record_request(b, latency_ms, success) ==
    [b EXCEPT !.request_count = @ + 1,
              !.avg_latency_ms =
                  IF success
                  THEN (EMA_NUM * latency_ms * LatScale + (EMA_DEN - EMA_NUM) * @) \div EMA_DEN
                  ELSE @,
              !.error_count = IF success THEN @ ELSE @ + 1]

\* -------------------------------------------- strategies.py: select_backend
\* key: Backend id -> the value the strategy minimises
\* the rotation index ignored: the first of the tied backends
TiedPick_First(key, backends, current_index) ==
    LET m == MinOf({key[backends[i]] : i \in 1..Len(backends)})
        IsTied(id) == key[id] = m
        tied == SelectSeq(backends, IsTied)
    IN  tied[1]

TiedPick(key, backends, current_index) ==
    LET m == MinOf({key[backends[i]] : i \in 1..Len(backends)})
        IsTied(id) == key[id] = m
        tied == SelectSeq(backends, IsTied)
    IN  tied[(current_index % Len(tied)) + 1]

KeyInflight(objs) == [id \in DOMAIN objs |-> objs[id].inflight]

KeyLatency(objs) == [id \in DOMAIN objs |-> objs[id].avg_latency_ms]

\* the remote load left out of the score
KeyLoad_InflightOnly(objs) == [id \in DOMAIN objs |-> objs[id].inflight]

KeyLoad(objs) == [id \in DOMAIN objs |-> objs[id].gpu_load + objs[id].inflight]

\* round_robin returns the index it was given
select_backend_NoAdvance(objs, backends, strat, current_index) ==
    IF strat = "round_robin"
    THEN <<backends[(current_index % Len(backends)) + 1], current_index>>
    ELSE IF strat = "least_connections"
    THEN <<TiedPick(KeyInflight(objs), backends, current_index), current_index + 1>>
    ELSE IF strat = "least_latency"
    THEN <<TiedPick(KeyLatency(objs), backends, current_index), current_index + 1>>
    ELSE IF strat = "least_load"
    THEN <<TiedPick(KeyLoad(objs), backends, current_index), current_index + 1>>
    ELSE <<backends[1], current_index>>

\* backends: non-empty sequence of object ids; result <<backend, new index>>
select_backend(objs, backends, strat, current_index) ==
    IF strat = "round_robin"
    THEN <<backends[(current_index % Len(backends)) + 1], current_index + 1>>
    ELSE IF strat = "least_connections"
    THEN <<TiedPick(KeyInflight(objs), backends, current_index), current_index + 1>>
    ELSE IF strat = "least_latency"
    THEN <<TiedPick(KeyLatency(objs), backends, current_index), current_index + 1>>
    ELSE IF strat = "least_load"
    THEN <<TiedPick(KeyLoad(objs), backends, current_index), current_index + 1>>
    ELSE <<backends[1], current_index>>

\* -------------------------------------------------- backend.py: BackendPool
BackendPool(model) == [model |-> model, backends |-> <<>>, index |-> 0]

IsHealthy(b) == b.healthy

\* the filter on b.healthy left out
healthy_backends_Unfiltered(objs, pool) == pool.backends

healthy_backends(objs, pool) ==
    LET Keep(id) == IsHealthy(objs[id]) IN SelectSeq(pool.backends, Keep)

\* get_backend: the selected backend (None if no healthy one) and the new index;
\* the caller applies the inflight increment of line 87 with Acquire
get_backend(objs, pool, strat) ==
    LET hb == healthy_backends(objs, pool)
    IN  IF hb = <<>>
        THEN [backend |-> None, index |-> pool.index]
        ELSE LET r == select_backend(objs, hb, strat, pool.index)
             IN  [backend |-> r[1], index |-> r[2]]

\* the increment of backend.py:87 left out
Acquire_Uncounted(objs, id) == objs

Acquire(objs, id) == [objs EXCEPT ![id].inflight = @ + 1]

\* the finally clause forgotten: the counter is not given back
Release_Forgotten(objs, id) == objs

\* the counter given back in the except clause and again in the finally clause,
\* without the clamp
Release_Twice(objs, id) == [objs EXCEPT ![id].inflight = @ - 2]

\* server.py:493, the finally clause of _proxy_request
Release(objs, id) == [objs EXCEPT ![id].inflight = Max(0, @ - 1)]

FindBackend(objs, pool, host, port) ==
    LET hit == {i \in 1..Len(pool.backends) :
                   /\ objs[pool.backends[i]].host = host
                   /\ objs[pool.backends[i]].port = port}
    IN  IF hit = {} THEN 0 ELSE MinOf(hit)

\* everything up to position i popped
RemoveAt_Through(seq, i) == SubSeq(seq, i + 1, Len(seq))

RemoveAt(seq, i) == SubSeq(seq, 1, i - 1) \o SubSeq(seq, i + 1, Len(seq))

\* BackendPool.remove_backend: the pool without the first backend at (host, port)
pool_remove_backend(objs, pool, host, port) ==
    LET i == FindBackend(objs, pool, host, port)
    IN  IF i = 0 THEN pool ELSE [pool EXCEPT !.backends = RemoveAt(@, i)]

\* BackendPool.remove_backend: the value returned
pool_remove_backend_returns(objs, pool, host, port) ==
    FindBackend(objs, pool, host, port) # 0

\* ------------------------------------------------- tracker.py: RequestTracker
\* Times are whole clock ticks, all >= 1, so that 0 stands for the None of
\* started_at / completed_at / turn_number as Python's truth tests read it;
\* "" is the absent session id and <<>> the absent backend url.
\* The store is a function on request ids; ids are handed out in increasing
\* order, so the dict's insertion order is the order of the ids.
TrackedRequest(session_id, turn_number, t) ==
    [status |-> "pending", session_id |-> session_id, turn_number |-> turn_number,
     submitted_at |-> t, started_at |-> None, completed_at |-> None,
     backend |-> <<>>]

Get(counters, session_id) ==
    IF session_id \in DOMAIN counters THEN counters[session_id] ELSE 0

\* the incremented counter is not written back
submit_CounterNotStored(reqs, counters, request_id, session_id, t) ==
    LET counter == Get(counters, session_id) + 1
        turn    == IF session_id # "" THEN counter ELSE None
        req     == TrackedRequest(session_id, turn, t)
    IN  [requests |-> [r \in DOMAIN reqs \cup {request_id} |->
                          IF r = request_id THEN req ELSE reqs[r]],
         counters |-> counters,
         turn     |-> turn]

\* submit: the store, the per-session counters and the turn number issued
submit(reqs, counters, request_id, session_id, t) ==
    LET counter == Get(counters, session_id) + 1
        turn    == IF session_id # "" THEN counter ELSE None
        req     == TrackedRequest(session_id, turn, t)
    IN  [requests |-> [r \in DOMAIN reqs \cup {request_id} |->
                          IF r = request_id THEN req ELSE reqs[r]],
         counters |-> IF session_id # ""
                      THEN [c \in DOMAIN counters \cup {session_id} |->
                               IF c = session_id THEN counter ELSE counters[c]]
                      ELSE counters,
         turn     |-> turn]

\* an unknown id gets an entry
start_processing_Inserts(reqs, request_id, backend, t) ==
    [r \in DOMAIN reqs \cup {request_id} |->
        [(IF r \in DOMAIN reqs THEN reqs[r] ELSE TrackedRequest("", None, t))
            EXCEPT !.started_at = IF r = request_id THEN t ELSE @,
                   !.backend = IF r = request_id THEN backend ELSE @,
                   !.status = IF r = request_id THEN "in_flight" ELSE @]]

start_processing(reqs, request_id, backend, t) ==
    IF request_id \in DOMAIN reqs
    THEN [reqs EXCEPT ![request_id].started_at = t,
                      ![request_id].backend = backend,
                      ![request_id].status = "in_flight"]
    ELSE reqs

CompletedStatus(success) == IF success THEN "completed" ELSE "failed"

\* the status changes and completed_at is left as it was
complete_NoTimestamp(reqs, request_id, success, t) ==
    IF request_id \in DOMAIN reqs
    THEN [reqs EXCEPT ![request_id].status = CompletedStatus(success)]
    ELSE reqs

complete(reqs, request_id, success, t) ==
    IF request_id \in DOMAIN reqs
    THEN [reqs EXCEPT ![request_id].completed_at = t,
                      ![request_id].status = CompletedStatus(success)]
    ELSE reqs

\* RequestTracker(max_history, cleanup_interval, stale_timeout), scaled down
max_history == 1
cleanup_interval == 2
stale_timeout == 3

IsDone(req) == req.status \in {"completed", "failed"}

IsOpen(req) == req.status \in {"pending", "in_flight"}

\* completed entries measured against stale_timeout
Expired_OneCutoff(reqs, t) ==
    LET stale_cutoff == t - stale_timeout
    IN  [rid \in {r \in DOMAIN reqs :
                     \/ /\ IsDone(reqs[r])
                        /\ reqs[r].completed_at # None
                        /\ reqs[r].completed_at < stale_cutoff
                     \/ /\ ~IsDone(reqs[r])
                        /\ IsOpen(reqs[r])
                        /\ reqs[r].submitted_at < stale_cutoff}
          |-> IF IsDone(reqs[rid]) THEN "old" ELSE "stale"]

\* only completed entries expire
Expired_NeverStale(reqs, t) ==
    LET cutoff == t - cleanup_interval
    IN  [rid \in {r \in DOMAIN reqs :
                     /\ IsDone(reqs[r])
                     /\ reqs[r].completed_at # None
                     /\ reqs[r].completed_at < cutoff}
          |-> "old"]

\* lines 100-109: the ids the pass removes for age, with the reason
Expired(reqs, t) ==
    LET cutoff       == t - cleanup_interval
        stale_cutoff == t - stale_timeout
    IN  [rid \in {r \in DOMAIN reqs :
                     \/ /\ IsDone(reqs[r])
                        /\ reqs[r].completed_at # None
                        /\ reqs[r].completed_at < cutoff
                     \/ /\ ~IsDone(reqs[r])
                        /\ IsOpen(reqs[r])
                        /\ reqs[r].submitted_at < stale_cutoff}
          |-> IF IsDone(reqs[rid]) THEN "old" ELSE "stale"]

\* max_history not enforced
Excess_Unbounded(reqs) == {}

\* lines 114-122: the first `excess` completed entries in completed_at order
\* (the sort is stable: entries completed at the same time keep store order)
Excess(reqs) ==
    IF Cardinality(DOMAIN reqs) > max_history
    THEN LET completed == {r \in DOMAIN reqs : IsDone(reqs[r])}
             excess    == Cardinality(DOMAIN reqs) - max_history
             Before(a, b) ==
                 \/ reqs[a].completed_at < reqs[b].completed_at
                 \/ reqs[a].completed_at = reqs[b].completed_at /\ a <= b
         IN  {r \in completed :
                 Cardinality({q \in completed : Before(q, r)}) <= excess}
    ELSE {}

Without(reqs, gone) == [r \in DOMAIN reqs \ gone |-> reqs[r]]

cleanup_old_requests(reqs, t) ==
    LET kept == Without(reqs, DOMAIN Expired(reqs, t))
    IN  Without(kept, Excess(kept))

\* get_status: lines 184-196 and 292-300. An entry of a list is the request id
\* of the to_dict() it stands for; the session and client groupings of lines
\* 198-290 are left out.
STATUS_LIMIT == 50
RECENT_WINDOW == 60

\* the ids of the store in the dict's iteration order
StoreOrder(reqs) ==
    LET n == IF DOMAIN reqs = {} THEN 0
             ELSE CHOOSE x \in DOMAIN reqs : \A y \in DOMAIN reqs : y <= x
        InStore(i) == i \in DOMAIN reqs
    IN  SelectSeq([i \in 1..n |-> i], InStore)

\* list.sort(key=submitted_at) on timestamps of 1..t: stable, so the entries
\* submitted at the same time keep the order they had
RECURSIVE SortBySubmitted(_, _, _)
SortBySubmitted(seq, reqs, t) ==
    IF t = 0 THEN <<>>
    ELSE LET At(r) == reqs[r].submitted_at = t
         IN  SortBySubmitted(seq, reqs, t - 1) \o SelectSeq(seq, At)

\* the slice is left out
Take_All(seq, k) == seq

\* seq[:k]
Take(seq, k) == SubSeq(seq, 1, IF k <= Len(seq) THEN k ELSE Len(seq))

get_status(reqs, t) ==
    LET IsPending(r)  == reqs[r].status = "pending"
        IsInFlight(r) == reqs[r].status = "in_flight"
        pending   == SortBySubmitted(SelectSeq(StoreOrder(reqs), IsPending), reqs, t)
        in_flight == SortBySubmitted(SelectSeq(StoreOrder(reqs), IsInFlight), reqs, t)
        recent_completed ==
            {r \in DOMAIN reqs : /\ IsDone(reqs[r])
                                 /\ reqs[r].completed_at # None
                                 /\ t - reqs[r].completed_at < RECENT_WINDOW}
    IN  [summary   |-> [pending               |-> Len(pending),
                        in_flight             |-> Len(in_flight),
                        completed_last_minute |-> Cardinality(recent_completed),
                        total_tracked         |-> Cardinality(DOMAIN reqs)],
         pending   |-> Take(pending, STATUS_LIMIT),
         in_flight |-> Take(in_flight, STATUS_LIMIT)]

\* what get_status returns for the empty store
NoStatus == get_status(<<>>, 1)

\* --------------------------------------------- server.py: pool resolution
Chars(name) ==
    CASE name = "m1"    -> <<"m", "1">>
      [] name = "m2"    -> <<"m", "2">>
      [] name = "M1"    -> <<"M", "1">>
      [] name = "m1@v2" -> <<"m", "1", "@", "v", "2">>
      [] name = "zz"    -> <<"z", "z">>
      [] OTHER          -> <<>>

LowerChar(c) == IF c = "M" THEN "m" ELSE c

Lower(cs) == [i \in 1..Len(cs) |-> LowerChar(cs[i])]

\* Python's `a in b` on strings
IsSubstring(a, b) ==
    \E i \in 0..(Len(b) - Len(a)) : SubSeq(b, i + 1, i + Len(a)) = a

PoolPos(ps, name) ==
    LET hit == {i \in 1..Len(ps) : ps[i].model = name}
    IN  IF hit = {} THEN 0 ELSE MinOf(hit)

\* the map asked before the pool names
LookupPool_MapFirst(ps, map, model) ==
    IF model \in DOMAIN map /\ PoolPos(ps, map[model]) # 0
    THEN PoolPos(ps, map[model])
    ELSE PoolPos(ps, model)

\* server.py:321-326: direct lookup, then the model -> pool map
LookupPool(ps, map, model) ==
    IF PoolPos(ps, model) # 0 THEN PoolPos(ps, model)
    ELSE IF model \in DOMAIN map THEN PoolPos(ps, map[model])
    ELSE 0

\* server.py:334-340: first pool, in insertion order, whose lower-cased name
\* contains or is contained in the lower-cased model
PartialMatch(ps, model) ==
    LET ml == Lower(Chars(model))
        hit == {i \in 1..Len(ps) :
                   /\ ml # <<>>
                   /\ \/ IsSubstring(ml, Lower(Chars(ps[i].model)))
                      \/ IsSubstring(Lower(Chars(ps[i].model)), ml)}
    IN  IF hit = {} THEN 0 ELSE MinOf(hit)

\* the model ids the backends of a pool answer on /v1/models (upstream
\* contract): m1 serves "m1@v2"; m2 serves "M1" and "m1"
AdvertisedIds(pool_name) ==
    IF pool_name = "m1" THEN {"m1@v2"}
    ELSE IF pool_name = "m2" THEN {"M1", "m1"}
    ELSE {pool_name}

\* the pools are asked in dict order and a later pool overwrites the entry of
\* an earlier one
MaxOf(S) == CHOOSE x \in S : \A y \in S : y <= x

\* _fetch_backend_models: every pool of `responding` that has a healthy backend
\* got a 200 from one of them; its ids are (re)mapped to the pool
fetch_backend_models(objs, ps, map, responding) ==
    LET got == {i \in 1..Len(ps) :
                   /\ ps[i].model \in responding
                   /\ healthy_backends(objs, ps[i]) # <<>>}
        ids == UNION {AdvertisedIds(ps[i].model) : i \in got}
    IN  [id \in DOMAIN map \cup ids |->
            IF id \in ids
            THEN ps[MaxOf({i \in got : id \in AdvertisedIds(ps[i].model)})].model
            ELSE map[id]]

\* line 345: list(model_to_pool.keys()) or list(pools.keys()), as a set
Available(ps, map) ==
    IF DOMAIN map # {} THEN DOMAIN map ELSE {ps[i].model : i \in 1..Len(ps)}

\* ------------------------------------------------------------------- Init
IdleTask == [pc |-> "idle", rid |-> None, model |-> "", backend |-> None]

\* what a returning handler leaves: the HTTP status sent to the client (None
\* when nothing is sent), the exit path taken and the status the upstream
\* answered with (None if it never answered)
Response(status, via, upstream) ==
    [status |-> status, via |-> via, upstream |-> upstream, available |-> {}]

Answer(rs, rid, status, via, upstream) ==
    [r \in DOMAIN rs \cup {rid} |->
        IF r = rid THEN Response(status, via, upstream) ELSE rs[r]]

\* history of a Backend: `timeouts` is the number of its most recent upstream
\* calls that all timed out (counted up to TIMEOUT_THRESHOLD); `since` is
\*   "down"        the request pipeline took it out of service (third timeout
\*                 in a row, or a transport error) and neither of the next two
\*                 has happened since
\*   "registered"  add_backend named it again since, and no probe succeeded
\*   ""            a health probe on it succeeded since, or it never was down
NoCalls == [timeouts |-> 0, since |-> ""]

ProbeSucceeded(h) == [h EXCEPT !.since = ""]

Reregistered(h) == [h EXCEPT !.since = IF @ = "down" THEN "registered" ELSE @]

\* manager.py:240-242: the poll thread waits for its first tick; `jobs` tells
\* what get_slurm_jobs returned in the latest tick: nothing or jobs ("found")
NoJobs == "none"

WaitingPoll ==
    [pc |-> "wait", jobs |-> "unpolled", current |-> {}, added |-> {},
     removed |-> {}, item |-> <<>>]

\* server.py:113: no task is created before start()
LoopNames == {"health_check", "gpu_load_refresh"}

NoTasks == [name \in LoopNames |-> [pc |-> "none", crashes |-> 0]]

\* no squeue rows have been turned into endpoints yet
NoBuild == [pc |-> "idle", rows |-> <<>>, endpoints |-> <<>>]

\* no connect() is running: no poll thread state and no tunnels
NoManager ==
    /\ known_endpoints = {}
    /\ procs = {}
    /\ poll = WaitingPoll
    /\ calls = <<>>
    /\ built = NoBuild

Init ==
    /\ backend_objs = [id \in HeapIds |-> NoBackend]
    /\ pools = <<>>
    /\ model_to_pool = <<>>
    /\ strategy = DEFAULT_STRATEGY
    /\ total_requests = 0
    /\ total_errors = 0
    /\ requests = <<>>
    /\ session_turn_counters = <<>>
    /\ now = 1
    /\ last_cleanup = 0
    /\ issued = <<>>
    /\ evicted = <<>>
    /\ status_out = NoStatus
    /\ task = [s \in 1..MaxHandlers |-> IdleTask]
    /\ responses = <<>>
    /\ held = [id \in HeapIds |-> 0]
    /\ recent = [id \in HeapIds |-> NoCalls]
    /\ NoManager
    /\ loops = NoTasks

Members(ps) == UNION {Range(ps[i].backends) : i \in 1..Len(ps)}

\* objects a suspended handler still holds a reference to
Serving(tk) ==
    {tk[s].backend : s \in {t \in DOMAIN tk : tk[t].pc \in {"selected", "upstream"}}}

\* reference counting: an object in no pool and served by no handler is freed
Collect(objs, ps, tk) ==
    [id \in DOMAIN objs |->
        IF id \in Members(ps) \cup Serving(tk) THEN objs[id] ELSE NoBackend]

CollectHeld(h, ps, tk) ==
    [id \in DOMAIN h |->
        IF id \in Members(ps) \cup Serving(tk) THEN h[id] ELSE 0]

CollectRecent(h, ps, tk) ==
    [id \in DOMAIN h |->
        IF id \in Members(ps) \cup Serving(tk) THEN h[id] ELSE NoCalls]

\* ------------------------------------- LoadBalancingProxy.add_backend (115)
\* the search for an existing (host, port) left out
pool_add_backend_AlwaysAppend(objs, ps, pi, host, port, partition) ==
    LET fresh == SlotOf(ps[pi].model, host, port)
    IN  [objs |-> [objs EXCEPT ![fresh] = Backend(host, port, partition)],
         pools |-> [ps EXCEPT ![pi].backends = Append(@, fresh)]]

\* BackendPool.add_backend on pool position pi of ps
pool_add_backend(objs, ps, pi, host, port, partition) ==
    LET i == FindBackend(objs, ps[pi], host, port)
    IN  IF i # 0
        THEN LET id == ps[pi].backends[i]
             IN  [objs |-> [objs EXCEPT ![id].healthy = TRUE,
                                        ![id].partition =
                                            IF partition # "" THEN partition ELSE @],
                  pools |-> ps]
        ELSE LET fresh == SlotOf(ps[pi].model, host, port)
             IN  [objs |-> [objs EXCEPT ![fresh] = Backend(host, port, partition)],
                  pools |-> [ps EXCEPT ![pi].backends = Append(@, fresh)]]

proxy_add_backend(model, host, port, partition) ==
    LET ps == IF PoolPos(pools, model) = 0
              THEN Append(pools, BackendPool(model)) ELSE pools
        pi == PoolPos(ps, model)
        r  == pool_add_backend(backend_objs, ps, pi, host, port, partition)
    IN  /\ backend_objs' = r.objs
        /\ pools' = r.pools
        /\ recent' = [id \in DOMAIN recent |->
                         IF /\ id \in Range(ps[pi].backends)
                            /\ url(backend_objs[id]) = <<host, port>>
                         THEN Reregistered(recent[id])
                         ELSE recent[id]]
        /\ UNCHANGED responses
        /\ UNCHANGED <<model_to_pool, strategy, total_requests, total_errors, requests,
                      task, held, tracker_clock, loops>>

\* a call from the thread that built the proxy
add_backend(model, host, port, partition) ==
    /\ proxy_add_backend(model, host, port, partition)
    /\ UNCHANGED manager_state

\* ---------------------------------- LoadBalancingProxy.remove_backend (121)
FreeDetached(objs) ==
    {id \in HeapIds : id > Len(Endpoints) /\ objs[id] = NoBackend}

Rank(x, S) == Cardinality({y \in S : y <= x})

Nth(S, k) == CHOOSE x \in S : Rank(x, S) = k

\* where each object lives once the objects of `leaving` have left their pools'
\* slots: the k-th of them takes the k-th free slot above the pools' slots
Moved(objs, leaving) ==
    [id \in HeapIds |->
        IF id \in leaving THEN Nth(FreeDetached(objs), Rank(id, leaving)) ELSE id]

Relocate(f, to, empty) ==
    [id \in HeapIds |->
        IF \E src \in HeapIds : to[src] = id
        THEN f[CHOOSE src \in HeapIds : to[src] = id]
        ELSE empty]

\* a pool left without backends is dropped
PoolsAfterRemove_DropsEmpty(objs, ps, host, port) ==
    LET HasBackends(pool) == pool.backends # <<>>
    IN  SelectSeq([i \in 1..Len(ps) |-> pool_remove_backend(objs, ps[i], host, port)],
                  HasBackends)

\* lines 124-126: every pool, in its place, after its remove_backend
PoolsAfterRemove(objs, ps, host, port) ==
    [i \in 1..Len(ps) |-> pool_remove_backend(objs, ps[i], host, port)]

proxy_remove_backend(host, port) ==
    LET ps      == PoolsAfterRemove(backend_objs, pools, host, port)
        leaving == (Members(pools) \ Members(ps)) \cap Serving(task)
        to      == Moved(backend_objs, leaving)
        tk      == [s \in DOMAIN task |->
                       IF task[s].pc \in {"selected", "upstream"}
                       THEN [task[s] EXCEPT !.backend = to[@]] ELSE task[s]]
    IN  /\ Cardinality(leaving) <= Cardinality(FreeDetached(backend_objs))
        /\ pools' = ps
        /\ task' = tk
        /\ backend_objs' = Collect(Relocate(backend_objs, to, NoBackend), ps, tk)
        /\ held' = CollectHeld(Relocate(held, to, 0), ps, tk)
        /\ recent' = CollectRecent(Relocate(recent, to, NoCalls), ps, tk)
        /\ UNCHANGED responses
        /\ UNCHANGED <<model_to_pool, strategy, total_requests, total_errors, requests,
                      tracker_clock, loops>>

\* only the answer of the pool asked last is returned
proxy_remove_backend_returns_Last(objs, ps, host, port) ==
    /\ Len(ps) > 0
    /\ pool_remove_backend_returns(objs, ps[Len(ps)], host, port)

\* lines 123-127: `removed`, set when a pool's remove_backend returns True
proxy_remove_backend_returns(objs, ps, host, port) ==
    \E i \in 1..Len(ps) : pool_remove_backend_returns(objs, ps[i], host, port)

\* a call from the thread that built the proxy
remove_backend(host, port) ==
    /\ proxy_remove_backend(host, port)
    /\ UNCHANGED manager_state

\* --------------------------------- LoadBalancingProxy._check_single_backend
\* server.py:59-73, parse_vllm_metrics.  A line of the /metrics text is its
\* metric name and what int(float(line.split()[-1])) makes of its last field:
\* "ok" with the value in tenths, "bad" (ValueError, caught at lines 65 and 70)
\* or "inf" (OverflowError, which those handlers let through)
MetricNames == {"running", "waiting"}

Line(name, how, tenths) == [name |-> name, how |-> how, tenths |-> tenths]

\* int(float(x)): the fraction is cut off
IntOfFloat(tenths) == tenths \div 10

\* the dict after the lines are read in order; "raised" if a line raised
RECURSIVE parse_vllm_metrics(_)
parse_vllm_metrics(text) ==
    IF text = <<>> THEN [raised |-> FALSE, metrics |-> <<>>]
    ELSE LET before == parse_vllm_metrics(SubSeq(text, 1, Len(text) - 1))
             line   == text[Len(text)]
         IN  IF before.raised \/ line.how = "inf"
             THEN [raised |-> TRUE, metrics |-> <<>>]
             ELSE IF line.how = "bad" THEN before
             ELSE [raised  |-> FALSE,
                   metrics |-> [n \in DOMAIN before.metrics \cup {line.name} |->
                                   IF n = line.name THEN IntOfFloat(line.tenths)
                                   ELSE before.metrics[n]]]

\* dict.get(name, 0)
GetOr0(metrics, name) == IF name \in DOMAIN metrics THEN metrics[name] ELSE 0

\* what GET /metrics comes to: no text (the cached load is younger than
\* LOAD_CACHE_TTL, the status is not 200, or the request fails) or a text
NoMetrics == [kind |-> "none", text |-> <<>>]

\* server.py:525-542, _refresh_backend_load on Backend b
refresh_backend_load(b, m) ==
    IF m.kind # "text" \/ parse_vllm_metrics(m.text).raised THEN b
    ELSE LET metrics == parse_vllm_metrics(m.text).metrics
         IN  [b EXCEPT !.gpu_load = GetOr0(metrics, "running")
                                     + GetOr0(metrics, "waiting")]

\* what GET /health comes to, and what GET /metrics would
ProbeResults ==
    {[exc |-> FALSE, status |-> 200, metrics |-> NoMetrics],
     [exc |-> FALSE, status |-> 503, metrics |-> NoMetrics],
     [exc |-> TRUE, status |-> None, metrics |-> NoMetrics]}

\* any answer counts as healthy, whatever its status
ProbeHealthy_AnyAnswer(res) == ~res.exc

\* a status of 500 still counts as healthy
ProbeHealthy_UpTo500(res) == ~res.exc /\ res.status <= 500

ProbeHealthy(res) == ~res.exc /\ res.status < 500

\* a probe that is answered clears the count of timeouts
Probed_ResetsTimeouts(b, res) ==
    IF ProbeHealthy(res)
    THEN refresh_backend_load([b EXCEPT !.healthy = TRUE, !.consecutive_timeouts = 0],
                              res.metrics)
    ELSE [b EXCEPT !.healthy = FALSE]

\* server.py:558-572: Backend b after its probe
Probed(b, res) ==
    IF ProbeHealthy(res)
    THEN refresh_backend_load([b EXCEPT !.healthy = TRUE], res.metrics)
    ELSE [b EXCEPT !.healthy = FALSE]

probe_backend(id, res) ==
    /\ id \in Members(pools)
    /\ backend_objs' = [backend_objs EXCEPT ![id] = Probed(@, res)]
    /\ recent' = [recent EXCEPT ![id] =
                     IF ~res.exc /\ res.status < 500 THEN ProbeSucceeded(@) ELSE @]
    /\ UNCHANGED responses
    /\ UNCHANGED <<manager_state, pools, model_to_pool, strategy, total_requests, total_errors,
                  requests, task, held, tracker_clock>>

\* a probe, whoever awaits it: start() or a pass of _health_check_loop
check_single_backend(id, res) ==
    /\ probe_backend(id, res)
    /\ UNCHANGED loops

\* ------------------------------------- LoadBalancingProxy._proxy_request
\* lines 351-412: get_backend, start_processing and the synchronous part of
\* the try block, up to the upstream call.  `how` is what happens on the way:
\*   "send"             the upstream request is issued (the handler suspends)
\*   "raise_before_try" an exception leaves the handler at lines 362-368
\*   "raise_in_try"     body inspection raises an exception that line 389
\*                      does not catch (AttributeError on a JSON body that is
\*                      not an object)
ForwardHows == {"send", "raise_before_try", "raise_in_try"}

Forward(s, rid, model, pi, reqs, how) ==
    LET g == get_backend(backend_objs, pools[pi], strategy)
    IN  IF g.backend = None
        THEN /\ how = "send"
             /\ total_errors' = total_errors + 1
             /\ requests' = complete(reqs, rid, FALSE, now)
             /\ task' = [task EXCEPT ![s] = IdleTask]
             /\ responses' = Answer(responses, rid, 503, "no_backend", None)
             /\ UNCHANGED <<backend_objs, pools, held>>
        ELSE LET b     == g.backend
                 objs1 == Acquire(backend_objs, b)
                 reqs1 == start_processing(reqs, rid, url(backend_objs[b]), now)
             IN  /\ pools' = [pools EXCEPT ![pi].index = g.index]
                 /\ requests' = reqs1
                 /\ UNCHANGED total_errors
                 /\ CASE how = "send" ->
                           /\ backend_objs' = objs1
                           /\ held' = [held EXCEPT ![b] = @ + 1]
                           /\ task' = [task EXCEPT ![s] =
                                  [pc |-> "upstream", rid |-> rid, model |-> model,
                                   backend |-> b]]
                           /\ UNCHANGED responses
                      [] how = "raise_before_try" ->
                           /\ backend_objs' = objs1
                           /\ held' = [held EXCEPT ![b] = @ + 1]
                           /\ task' = [task EXCEPT ![s] = IdleTask]
                           /\ responses' = Answer(responses, rid, 500, "raised_before_try", None)
                      [] how = "raise_in_try" ->
                           /\ backend_objs' = Release(objs1, b)
                           /\ held' = held
                           /\ task' = [task EXCEPT ![s] = IdleTask]
                           /\ responses' = Answer(responses, rid, 500, "raised", None)

FreeSlots == {s \in 1..MaxHandlers : task[s].pc = "idle"}

\* lines 301-326: count, submit, look the pool up; a hit goes on to Forward,
\* a miss suspends in _fetch_backend_models(force=True)
Begin(s, model, how) ==
    /\ FreeSlots # {}
    /\ s = MinOf(FreeSlots)
    /\ total_requests' = total_requests + 1
    /\ LET rid  == total_requests + 1
           reqs == submit(requests, session_turn_counters, rid, "", now).requests
           pi   == LookupPool(pools, model_to_pool, model)
       IN  IF pi # 0
           THEN Forward(s, rid, model, pi, reqs, how)
           ELSE /\ how = "send"
                /\ requests' = reqs
                /\ task' = [task EXCEPT ![s] =
                       [pc |-> "fetch", rid |-> rid, model |-> model,
                        backend |-> None]]
                /\ UNCHANGED responses
                /\ UNCHANGED <<backend_objs, pools, total_errors, held>>
    /\ UNCHANGED <<manager_state, loops, model_to_pool, strategy, recent, tracker_clock>>

\* lines 329-349: the refresh returns; map again, then partial match, else 404
Resolve(s, responding, how) ==
    /\ task[s].pc = "fetch"
    /\ LET rid   == task[s].rid
           model == task[s].model
           map   == fetch_backend_models(backend_objs, pools, model_to_pool, responding)
           pi    == IF model \in DOMAIN map /\ PoolPos(pools, map[model]) # 0
                    THEN PoolPos(pools, map[model])
                    ELSE PartialMatch(pools, model)
       IN  /\ model_to_pool' = map
           /\ IF pi # 0
              THEN Forward(s, rid, model, pi, requests, how)
              ELSE /\ how = "send"
                   /\ total_errors' = total_errors + 1
                   /\ requests' = complete(requests, rid, FALSE, now)
                   /\ task' = [task EXCEPT ![s] = IdleTask]
                   /\ responses' = [Answer(responses, rid, 404, "no_pool", None)
                                       EXCEPT ![rid].available = Available(pools, map)]
                   /\ UNCHANGED <<backend_objs, pools, held>>
    /\ UNCHANGED <<manager_state, loops, strategy, total_requests, recent, tracker_clock>>

\* what the upstream call of lines 418-425 ends in
Outcomes ==
    {[kind |-> "response", status |-> st, raises |-> r] :
        st \in UpstreamStatuses, r \in BOOLEAN}
    \cup {[kind |-> k, status |-> None, raises |-> FALSE] :
            k \in {"timeout", "transport", "cancel"}}

IsSuccess(status) == status < 500

\* the threshold compared with > instead of >=
HealthyAfterTimeout_OffByOne(b) ==
    IF b.consecutive_timeouts > TIMEOUT_THRESHOLD THEN FALSE ELSE b.healthy

\* line 468: the backend's health after a timeout that left it at ct timeouts
HealthyAfterTimeout(b) ==
    IF b.consecutive_timeouts >= TIMEOUT_THRESHOLD THEN FALSE ELSE b.healthy

\* the transport-error handler without its `backend.healthy = False`
AfterUpstream_TransportKeepsHealth(b, out, latency_ms) ==
    CASE out.kind = "response" ->
            [record_request(b, latency_ms, IsSuccess(out.status))
                EXCEPT !.consecutive_timeouts = 0]
      [] out.kind = "timeout" ->
            LET b1 == [record_request(b, latency_ms, FALSE)
                          EXCEPT !.consecutive_timeouts = @ + 1]
            IN  [b1 EXCEPT !.healthy = HealthyAfterTimeout(b1)]
      [] out.kind = "transport" -> record_request(b, latency_ms, FALSE)
      [] OTHER -> b

\* the Backend after lines 425-434 / 464-469 / 480-483, before the finally
AfterUpstream(b, out, latency_ms) ==
    CASE out.kind = "response" ->
            [record_request(b, latency_ms, IsSuccess(out.status))
                EXCEPT !.consecutive_timeouts = 0]
      [] out.kind = "timeout" ->
            LET b1 == [record_request(b, latency_ms, FALSE)
                          EXCEPT !.consecutive_timeouts = @ + 1]
            IN  [b1 EXCEPT !.healthy = HealthyAfterTimeout(b1)]
      [] out.kind = "transport" ->
            [record_request(b, latency_ms, FALSE) EXCEPT !.healthy = FALSE]
      [] OTHER -> b

\* whether the path reaches its `await self.tracker.complete(...)`
ReachesComplete(out) ==
    \/ out.kind = "response" /\ ~out.raises
    \/ out.kind \in {"timeout", "transport"}

CountsError(out) ==
    \/ out.kind = "response" /\ ~IsSuccess(out.status)
    \/ out.kind \in {"timeout", "transport"}

\* the two gateway statuses swapped
ClientStatus_Swapped(out) ==
    CASE out.kind = "response" -> IF out.raises THEN 500 ELSE out.status
      [] out.kind = "timeout" -> 502
      [] out.kind = "transport" -> 504
      [] OTHER -> None

ClientStatus(out) ==
    CASE out.kind = "response" -> IF out.raises THEN 500 ELSE out.status
      [] out.kind = "timeout" -> 504
      [] out.kind = "transport" -> 502
      [] OTHER -> None

Via(out) ==
    CASE out.kind = "response" -> IF out.raises THEN "raised" ELSE "response"
      [] out.kind = "timeout" -> "timeout"
      [] out.kind = "transport" -> "transport"
      [] OTHER -> "cancelled"

Min(a, b) == IF a <= b THEN a ELSE b

\* b: the Backend as the call left it
AfterCall(h, out, b) ==
    CASE out.kind = "timeout" ->
            LET n == Min(TIMEOUT_THRESHOLD, h.timeouts + 1)
            IN  [timeouts |-> n,
                 since |-> IF n >= TIMEOUT_THRESHOLD
                              \/ b.consecutive_timeouts >= TIMEOUT_THRESHOLD
                           THEN "down" ELSE h.since]
      [] out.kind = "transport" -> [timeouts |-> 0, since |-> "down"]
      [] out.kind = "response" -> [h EXCEPT !.timeouts = 0]
      [] OTHER -> h

\* lines 418-493: the upstream call ends; statistics, tracker, response, and
\* the finally clause that gives the backend back
Upstream(s, out, latency_ms) ==
    /\ task[s].pc = "upstream"
    /\ LET b   == task[s].backend
           rid == task[s].rid
           tk  == [task EXCEPT ![s] = IdleTask]
       IN  /\ backend_objs' =
                  Collect(Release([backend_objs EXCEPT
                                      ![b] = AfterUpstream(@, out, latency_ms)], b),
                          pools, tk)
           /\ held' = CollectHeld([held EXCEPT ![b] = @ - 1], pools, tk)
           /\ recent' = CollectRecent(
                  [recent EXCEPT
                      ![b] = AfterCall(@, out, AfterUpstream(backend_objs[b], out, latency_ms))],
                  pools, tk)
           /\ total_errors' = IF CountsError(out) THEN total_errors + 1 ELSE total_errors
           /\ requests' = IF ReachesComplete(out)
                          THEN complete(requests, rid,
                                        out.kind = "response" /\ IsSuccess(out.status),
                                        now)
                          ELSE requests
           /\ task' = tk
           /\ responses' = Answer(responses, rid, ClientStatus(out), Via(out), out.status)
    /\ UNCHANGED <<manager_state, loops, pools, model_to_pool, strategy, total_requests, tracker_clock>>

\* ------------------------------------------------------------------- Next
\* The request lifecycle with registrations: either endpoint is registered at
\* any time and the first one is taken out again, also under a request
\* (SpecPool removes either endpoint).
Next ==
    \/ \E m \in PoolNames, h \in Hosts, p \in Ports, part \in {"p1"} :
          add_backend(m, h, p, part)
    \/ remove_backend(Endpoints[1][2], Endpoints[1][3])
    \/ \E s \in 1..MaxHandlers, m \in RequestModels, how \in ForwardHows :
          total_requests < MaxRequests /\ Begin(s, m, how)
    \/ \E s \in 1..MaxHandlers, how \in ForwardHows :
          Resolve(s, {}, how)
    \/ \E s \in 1..MaxHandlers, out \in Outcomes, lat \in Latencies :
          Upstream(s, out, lat)

Spec == Init /\ [][Next]_vars

\* ------------------------------------------------- sequences of dispatches
\* The proxy as proxy_server() builds it: pool m1 registered with one or two
\* backends before the server starts, requests that name the pool, up to
\* MaxDispatches of them.
MaxDispatches == 4

Registered(n) ==
    [id \in HeapIds |->
        IF id <= n THEN Backend(Endpoints[id][2], Endpoints[id][3], "p1") ELSE NoBackend]

InitRegistered(strategies, sizes) ==
    /\ \E n \in sizes :
          /\ backend_objs = Registered(n)
          /\ pools = <<[BackendPool("m1") EXCEPT !.backends = [i \in 1..n |-> i]]>>
    /\ model_to_pool = <<>>
    /\ strategy \in strategies
    /\ total_requests = 0
    /\ total_errors = 0
    /\ requests = <<>>
    /\ session_turn_counters = <<>>
    /\ now = 1
    /\ last_cleanup = 0
    /\ issued = <<>>
    /\ evicted = <<>>
    /\ status_out = NoStatus
    /\ task = [s \in 1..MaxHandlers |-> IdleTask]
    /\ responses = <<>>
    /\ held = [id \in HeapIds |-> 0]
    /\ recent = [id \in HeapIds |-> NoCalls]
    /\ NoManager
    /\ loops = NoTasks

Answered == [kind |-> "response", status |-> 200, raises |-> FALSE]

TimedOut == [kind |-> "timeout", status |-> None, raises |-> FALSE]

TransportError == [kind |-> "transport", status |-> None, raises |-> FALSE]

\* selection: every strategy; upstream calls are answered, health probes change
\* which backends are healthy
InitDispatch == InitRegistered(StrategyNames, 1..Len(Endpoints))

NextDispatch ==
    \/ \E id \in HeapIds, res \in ProbeResults :
          check_single_backend(id, res)
    \/ \E s \in 1..MaxHandlers :
          total_requests < MaxDispatches /\ Begin(s, "m1", "send")
    \/ \E s \in 1..MaxHandlers, lat \in Latencies :
          Upstream(s, Answered, lat)

SpecDispatch == InitDispatch /\ [][NextDispatch]_vars

\* health: one backend, the default strategy; upstream calls are answered, time
\* out or fail in transport, while health probes and registrations interleave
InitHealth == InitRegistered({DEFAULT_STRATEGY}, {1})

NextHealth ==
    \/ add_backend("m1", "localhost", Endpoints[1][3], "p1")
    \/ \E id \in HeapIds, res \in ProbeResults :
          check_single_backend(id, res)
    \/ \E s \in 1..MaxHandlers :
          total_requests < MaxDispatches /\ Begin(s, "m1", "send")
    \/ \E s \in 1..MaxHandlers, out \in {Answered, TimedOut, TransportError},
          lat \in Latencies :
          Upstream(s, out, lat)

SpecHealth == InitHealth /\ [][NextHealth]_vars

\* registration: backends are added with and without a partition, added again,
\* removed and probed while one handler serves requests
Partitions == {"", "p1", "p2"}

NextPool ==
    \/ \E m \in PoolNames, h \in Hosts, p \in Ports, part \in Partitions :
          add_backend(m, h, p, part)
    \/ \E h \in Hosts, p \in Ports : remove_backend(h, p)
    \/ \E id \in HeapIds, res \in ProbeResults :
          check_single_backend(id, res)
    \/ total_requests < MaxRequests /\ Begin(1, "m1", "send")
    \/ \E lat \in Latencies : Upstream(1, Answered, lat)

SpecPool == Init /\ [][NextPool]_vars

\* tie-breaking: a pool of two or three fresh backends under the strategies that
\* minimise a load key; upstream calls are answered, in any interleaving with
\* the next dispatches
FairPorts == <<5900, 5910, 5920>>

LoadStrategies == {"least_connections", "least_load"}

InitFair ==
    /\ \E n \in 2..Len(FairPorts) :
          /\ backend_objs =
                [id \in HeapIds |->
                    IF id <= n THEN Backend("localhost", FairPorts[id], "p1")
                    ELSE NoBackend]
          /\ pools = <<[BackendPool("m1") EXCEPT !.backends = [i \in 1..n |-> i]]>>
    /\ model_to_pool = <<>>
    /\ strategy \in LoadStrategies
    /\ total_requests = 0
    /\ total_errors = 0
    /\ requests = <<>>
    /\ session_turn_counters = <<>>
    /\ now = 1
    /\ last_cleanup = 0
    /\ issued = <<>>
    /\ evicted = <<>>
    /\ status_out = NoStatus
    /\ task = [s \in 1..MaxHandlers |-> IdleTask]
    /\ responses = <<>>
    /\ held = [id \in HeapIds |-> 0]
    /\ recent = [id \in HeapIds |-> NoCalls]
    /\ NoManager
    /\ loops = NoTasks

NextFair ==
    \/ \E s \in 1..MaxHandlers :
          total_requests < MaxDispatches /\ Begin(s, "m1", "send")
    \/ \E s \in 1..MaxHandlers, lat \in Latencies :
          Upstream(s, Answered, lat)

SpecFair == InitFair /\ [][NextFair]_vars

\* ------------------------------------------------- the tracker on its clock
\* The RequestTracker by itself, under every order of submit, start_processing
\* and complete its callers can make, with time.time() advancing in ticks and
\* _cleanup_loop running a pass every cleanup_interval ticks after start().
MaxTime == 5
MaxSubmits == 2
MaxTracked == max_history + 1

\* the request ids the callers have used so far
Used == DOMAIN requests \cup DOMAIN evicted

Sessions == {"", "s1"}

BackendUrls == {<<Endpoints[1][2], Endpoints[1][3]>>}

proxy_state == <<backend_objs, pools, model_to_pool, strategy, total_errors, task,
                 responses, held, recent>>

\* RequestTracker.__init__ and start(): the cleanup task sleeps from time 1
InitTracker ==
    /\ backend_objs = Registered(1)
    /\ pools = <<[BackendPool("m1") EXCEPT !.backends = <<1>>]>>
    /\ model_to_pool = <<>>
    /\ strategy = DEFAULT_STRATEGY
    /\ total_requests = 0
    /\ total_errors = 0
    /\ requests = <<>>
    /\ session_turn_counters = <<>>
    /\ now = 1
    /\ last_cleanup = 1
    /\ issued = <<>>
    /\ evicted = <<>>
    /\ status_out = NoStatus
    /\ task = [s \in 1..MaxHandlers |-> IdleTask]
    /\ responses = <<>>
    /\ held = [id \in HeapIds |-> 0]
    /\ recent = [id \in HeapIds |-> NoCalls]
    /\ NoManager
    /\ loops = NoTasks

\* time passes; the sleeping cleanup task wakes after cleanup_interval
Tick ==
    /\ now < MaxTime
    /\ now < last_cleanup + cleanup_interval
    /\ now' = now + 1
    /\ UNCHANGED <<manager_state, loops, proxy_state, total_requests, requests, session_turn_counters,
                   last_cleanup, issued, evicted, status_out>>

\* a caller submits: the next request id not seen before, or one still in the
\* store; total_requests counts the calls
TrackerSubmit(request_id, session_id) ==
    /\ total_requests < MaxSubmits
    /\ \/ request_id = Cardinality(Used) + 1
       \/ request_id \in DOMAIN requests
    /\ LET r == submit(requests, session_turn_counters, request_id, session_id, now)
       IN  /\ requests' = r.requests
           /\ session_turn_counters' = r.counters
           /\ issued' = IF session_id # ""
                        THEN [c \in DOMAIN issued \cup {session_id} |->
                                 IF c \in DOMAIN issued /\ c # session_id
                                 THEN issued[c]
                                 ELSE Append(IF c \in DOMAIN issued THEN issued[c]
                                             ELSE <<>>, r.turn)]
                        ELSE issued
    /\ total_requests' = total_requests + 1
    /\ UNCHANGED <<manager_state, loops, proxy_state, now, last_cleanup, evicted, status_out>>

TrackerStart(request_id, backend) ==
    /\ request_id \in Used
    /\ requests' = start_processing(requests, request_id, backend, now)
    /\ UNCHANGED <<manager_state, loops, proxy_state, total_requests, session_turn_counters, now,
                   last_cleanup, issued, evicted, status_out>>

TrackerComplete(request_id, success) ==
    /\ request_id \in Used
    /\ requests' = complete(requests, request_id, success, now)
    /\ UNCHANGED <<manager_state, loops, proxy_state, total_requests, session_turn_counters, now,
                   last_cleanup, issued, evicted, status_out>>

\* _cleanup_loop: one pass when the sleep of cleanup_interval is over
Cleanup ==
    /\ now = last_cleanup + cleanup_interval
    /\ requests' = cleanup_old_requests(requests, now)
    /\ last_cleanup' = now
    /\ evicted' = LET old  == Expired(requests, now)
                      gone == DOMAIN requests \ DOMAIN requests'
                  IN  [r \in DOMAIN evicted \cup gone |->
                          IF r \in DOMAIN old THEN old[r]
                          ELSE IF r \in gone THEN "excess"
                          ELSE evicted[r]]
    /\ UNCHANGED <<manager_state, loops, proxy_state, total_requests, session_turn_counters, now, issued,
                   status_out>>

NextTracker ==
    \/ Tick
    \/ \E rid \in 1..MaxTracked, session_id \in Sessions :
          TrackerSubmit(rid, session_id)
    \/ \E rid \in 1..MaxTracked, backend \in BackendUrls :
          TrackerStart(rid, backend)
    \/ \E rid \in 1..MaxTracked, success \in BOOLEAN :
          TrackerComplete(rid, success)
    \/ Cleanup

SpecTracker == InitTracker /\ [][NextTracker]_vars

\* --------------------------------------------------- the status endpoint
\* get_status on stores larger than its lists: the first Pending ids are
\* pending, the next InFlight ids in flight, submitted at time 1 or 2 in
\* either order of the ids, at time 2.
MaxListed == 52

ListSizes == {0, 1} \cup ((STATUS_LIMIT - 1)..MaxListed)

Stored(n_pending, n_in_flight, newest_first) ==
    [rid \in 1..(n_pending + n_in_flight) |->
        LET early == (rid % 2 = 1) # newest_first
            t     == IF early THEN 1 ELSE 2
            req   == TrackedRequest("", None, t)
        IN  IF rid <= n_pending THEN req
            ELSE [req EXCEPT !.status = "in_flight", !.started_at = 2,
                             !.backend = <<Endpoints[1][2], Endpoints[1][3]>>]]

InitStatus ==
    /\ backend_objs = Registered(1)
    /\ pools = <<[BackendPool("m1") EXCEPT !.backends = <<1>>]>>
    /\ model_to_pool = <<>>
    /\ strategy = DEFAULT_STRATEGY
    /\ total_errors = 0
    /\ \E n_pending, n_in_flight \in ListSizes, newest_first \in BOOLEAN :
          /\ requests = Stored(n_pending, n_in_flight, newest_first)
          /\ total_requests = n_pending + n_in_flight
    /\ session_turn_counters = <<>>
    /\ now = 2
    /\ last_cleanup = 1
    /\ issued = <<>>
    /\ evicted = <<>>
    /\ status_out = NoStatus
    /\ task = [s \in 1..MaxHandlers |-> IdleTask]
    /\ responses = <<>>
    /\ held = [id \in HeapIds |-> 0]
    /\ recent = [id \in HeapIds |-> NoCalls]
    /\ NoManager
    /\ loops = NoTasks

\* GET /queue/status: server.py:233-236
GetStatus ==
    /\ status_out' = get_status(requests, now)
    /\ UNCHANGED <<manager_state, loops, proxy_state, total_requests, requests, session_turn_counters,
                   now, last_cleanup, issued, evicted>>

\* the oldest request of the store moves on while the endpoint is polled
NextStatus ==
    \/ GetStatus
    \/ \E backend \in BackendUrls : TrackerStart(1, backend)
    \/ \E success \in BOOLEAN : TrackerComplete(1, success)

SpecStatus == InitStatus /\ [][NextStatus]_vars

\* ------------------------------------------------------ pool resolution
\* Two pools of one backend each, m1 registered before m2; requests name a
\* pool, an id a backend advertises, a name in another case, an unknown name
\* or no model at all; discovery is answered by any subset of the pools and
\* probes turn the backends unhealthy and healthy again.
ResolvePools == <<"m1", "m2">>

ResolveModels == {"m1", "m1@v2", "M1", "zz", ""}

InitResolve ==
    /\ backend_objs =
          [id \in HeapIds |->
              IF id <= Len(ResolvePools)
              THEN Backend(Endpoints[id][2], Endpoints[id][3], "") ELSE NoBackend]
    /\ pools = [i \in 1..Len(ResolvePools) |->
                  [BackendPool(ResolvePools[i]) EXCEPT !.backends = <<i>>]]
    /\ model_to_pool = <<>>
    /\ strategy = DEFAULT_STRATEGY
    /\ total_requests = 0
    /\ total_errors = 0
    /\ requests = <<>>
    /\ session_turn_counters = <<>>
    /\ now = 1
    /\ last_cleanup = 0
    /\ issued = <<>>
    /\ evicted = <<>>
    /\ status_out = NoStatus
    /\ task = [s \in 1..MaxHandlers |-> IdleTask]
    /\ responses = <<>>
    /\ held = [id \in HeapIds |-> 0]
    /\ recent = [id \in HeapIds |-> NoCalls]
    /\ NoManager
    /\ loops = NoTasks

NextResolve ==
    \/ \E s \in 1..MaxHandlers, model \in ResolveModels :
          total_requests < MaxRequests /\ Begin(s, model, "send")
    \/ \E s \in 1..MaxHandlers, responding \in SUBSET Range(ResolvePools) :
          Resolve(s, responding, "send")
    \/ \E s \in 1..MaxHandlers, lat \in Latencies : Upstream(s, Answered, lat)
    \/ \E id \in HeapIds, res \in ProbeResults : check_single_backend(id, res)

SpecResolve == InitResolve /\ [][NextResolve]_vars

\* ----------------------------------- ConnectionManager._build_endpoint
\* A command is the sequence of its pieces: "/", ".", "_" and the digits are
\* characters, every other piece is a run of other characters.
Digits == {"0", "1"}

DigitValue(d) == IF d = "0" THEN 0 ELSE 1

StartVllm == <<"start", "_", "vllm", "_">>

\* str.rfind, counted from 1; 0 when c does not occur
LastIndexOf(seq, c) ==
    LET hit == {i \in 1..Len(seq) : seq[i] = c}
    IN  IF hit = {} THEN 0 ELSE MaxOf(hit)

\* Path(command).name: what follows the last "/"
PathName(command) ==
    SubSeq(command, LastIndexOf(command, "/") + 1, Len(command))

\* Path(command).stem: the name without its last suffix; a dot that leads or
\* ends the name starts no suffix
PathStem(command) ==
    LET name == PathName(command)
        i    == LastIndexOf(name, ".")
    IN  IF 1 < i /\ i < Len(name) THEN SubSeq(name, 1, i - 1) ELSE name

StartsWith(seq, prefix) ==
    Len(seq) >= Len(prefix) /\ SubSeq(seq, 1, Len(prefix)) = prefix

\* line 86: job_name.rsplit("_", 1)
RSplit(seq) ==
    LET i == LastIndexOf(seq, "_")
    IN  IF i = 0 THEN <<seq>>
        ELSE <<SubSeq(seq, 1, i - 1), SubSeq(seq, i + 1, Len(seq))>>

\* str.isdigit
IsDigit(seq) == seq # <<>> /\ \A i \in 1..Len(seq) : seq[i] \in Digits

\* int() of a string of digits
RECURSIVE IntOf(_)
IntOf(seq) ==
    IF seq = <<>> THEN 0
    ELSE IntOf(SubSeq(seq, 1, Len(seq) - 1)) * 10 + DigitValue(seq[Len(seq)])

\* self._model_configs: two configured models with their names as strings
\* and their base ports
ModelConfigs ==
    [k \in {<<"m1">>, <<"my", "_", "model">>} |->
        IF k = <<"m1">> THEN [name |-> "m1", port |-> Endpoints[1][3]]
        ELSE [name |-> "my_model", port |-> 7000]]

\* the replica index added as it is
ReplicaPort_Adjacent(base, replica_idx) == base + replica_idx

\* line 102
ReplicaPort(base, replica_idx) == base + replica_idx * 10

\* url_accessible on what GET /health met: an HTTP status, or None when the
\* request raised something other than HTTPError (refused, timed out)
url_accessible(answer) ==
    IF answer = None THEN FALSE
    ELSE IF 200 <= answer /\ answer < 400 THEN TRUE
    ELSE answer = 404

\* _build_endpoint returns None
NoEndpoint == <<>>

\* a job is its squeue row and what its health URL answers; the partition ""
\* is a row without one (job.get("partition") or "")
build_endpoint(job) ==
    IF job.command = <<>> THEN NoEndpoint
    ELSE LET stem     == PathStem(job.command)
             job_name == IF StartsWith(stem, StartVllm)
                         THEN SubSeq(stem, Len(StartVllm) + 1, Len(stem))
                         ELSE stem
             parts    == RSplit(job_name)
             suffixed == Len(parts) = 2 /\ IsDigit(parts[2])
             model    == IF suffixed THEN parts[1] ELSE job_name
             replica_idx == IF suffixed THEN IntOf(parts[2]) ELSE 0
         IN  IF model \notin DOMAIN ModelConfigs THEN NoEndpoint
             ELSE LET port == ReplicaPort(ModelConfigs[model].port, replica_idx)
                  IN  IF url_accessible(job.health)
                      THEN <<ModelConfigs[model].name, job.node, port, job.partition>>
                      ELSE NoEndpoint

\* _build_endpoints: the endpoints of the rows that have one, in row order
build_endpoints(rows) ==
    LET Found(e) == e # NoEndpoint
    IN  SelectSeq([i \in 1..Len(rows) |-> build_endpoint(rows[i])], Found)

\* the commands tried: with and without a directory, the start_vllm_ prefix
\* and an extension, around names with and without a replica suffix
CommandDirs == {<<>>, <<"/", "d", "/">>}

CommandPrefixes == {<<>>, StartVllm}

CommandBodies ==
    {<<"m1">>, <<"m1", "_", "0">>, <<"m1", "_", "1">>, <<"m1", "_", "1", "0">>,
     <<"m1", "_">>, <<"m1", "_", "x">>, <<"zz">>, <<"zz", "_", "1">>,
     <<"my", "_", "model">>, <<"my", "_", "model", "_", "1">>, <<"_", "1">>,
     <<"1">>, <<>>}

CommandExts == {<<>>, <<".", "sh">>}

CommandParts == CommandDirs \X CommandPrefixes \X CommandBodies \X CommandExts

CommandOf(parts) == parts[1] \o parts[2] \o parts[3] \o parts[4]

Commands == {CommandOf(parts) : parts \in CommandParts}

HealthAnswers == {200, 404, 500, None}

Jobs ==
    [node : {"n1"}, partition : {"p1", ""}, command : Commands, health : HealthAnswers]

\* squeue answers made of two rows
PairJobs ==
    {job \in Jobs : /\ job.partition = "p1"
                    /\ job.health \in {200, None}
                    /\ job.command \in {StartVllm \o <<"m1", "_", "0", ".", "sh">>,
                                        StartVllm \o <<"m1", "_", "1", ".", "sh">>}}

Rows ==
    {<<>>} \cup {<<job>> : job \in Jobs}
           \cup {<<job, other>> : job \in PairJobs, other \in PairJobs}

\* get_slurm_jobs returned rows (manager.py:244, 282)
Enumerate(rows) ==
    /\ built.pc \in {"idle", "returned"}
    /\ built' = [pc |-> "called", rows |-> rows, endpoints |-> <<>>]
    /\ UNCHANGED <<known_endpoints, procs, poll, calls, loops, proxy_state,
                   total_requests, requests, tracker_clock>>

\* self._build_endpoints(jobs) (manager.py:248, 287)
BuildEndpoints ==
    /\ built.pc = "called"
    /\ built' = [built EXCEPT !.pc = "returned", !.endpoints = build_endpoints(built.rows)]
    /\ UNCHANGED <<known_endpoints, procs, poll, calls, loops, proxy_state,
                   total_requests, requests, tracker_clock>>

NextBuild ==
    \/ \E rows \in Rows : Enumerate(rows)
    \/ BuildEndpoints

\* ------------------------------------------- ConnectionManager._poll_loop
\* connect() has opened the tunnels, built the proxy from the endpoints found
\* and started the poll thread; the proxy serves requests on its event loop
\* thread while the poll thread reconciles.  An endpoint is the tuple
\* (model, node, port, partition) of _build_endpoint; a node serves a port for
\* one job at a time.
PollNode == "n1"

PollPartitions == {"p1"}

PollEndpoints ==
    {<<Endpoints[i][1], PollNode, Endpoints[i][3], part>> :
        i \in 1..Len(Endpoints), part \in PollPartitions}

JobSets ==
    {E \in SUBSET PollEndpoints :
        \A e, f \in E : e[2] = f[2] /\ e[3] = f[3] => e = f}

\* SSHTunnelManager: the key of an endpoint's tunnel
TunnelKey(e) == <<e[2], e[3]>>

\* the ids of S in ascending order
RECURSIVE Ascending(_)
Ascending(S) ==
    IF S = {} THEN <<>> ELSE <<MinOf(S)>> \o Ascending(S \ {MinOf(S)})

\* _build_backends and proxy_server: every endpoint is registered on localhost
\* with its partition
InitPoll ==
    /\ \E E \in JobSets :
          /\ known_endpoints = E
          /\ procs = {TunnelKey(e) : e \in E}
          /\ backend_objs =
                [id \in HeapIds |->
                    IF \E e \in E : id = SlotOf(e[1], "localhost", e[3])
                    THEN LET e == CHOOSE f \in E : id = SlotOf(f[1], "localhost", f[3])
                         IN  Backend("localhost", e[3], e[4])
                    ELSE NoBackend]
          /\ pools = IF E = {} THEN <<>>
                     ELSE <<[BackendPool("m1") EXCEPT !.backends =
                               Ascending({SlotOf(e[1], "localhost", e[3]) : e \in E})]>>
    /\ poll = WaitingPoll
    /\ calls = <<>>
    /\ built = NoBuild
    /\ loops = NoTasks
    /\ model_to_pool = <<>>
    /\ strategy = DEFAULT_STRATEGY
    /\ total_requests = 0
    /\ total_errors = 0
    /\ requests = <<>>
    /\ session_turn_counters = <<>>
    /\ now = 1
    /\ last_cleanup = 0
    /\ issued = <<>>
    /\ evicted = <<>>
    /\ status_out = NoStatus
    /\ task = [s \in 1..MaxHandlers |-> IdleTask]
    /\ responses = <<>>
    /\ held = [id \in HeapIds |-> 0]
    /\ recent = [id \in HeapIds |-> NoCalls]

\* the poll thread after a call returned: the next added endpoint, then the
\* next removed one, then lines 265-266 and back to stop_event.wait
Continue(current, added, removed) ==
    [pc      |-> IF added # {} THEN "adding"
                 ELSE IF removed # {} THEN "removing" ELSE "wait",
     jobs    |-> "found",
     current |-> current,
     added   |-> added,
     removed |-> removed,
     item    |-> <<>>]

KnownAfter(known, next) == IF next.pc = "wait" THEN next.current ELSE known

\* lines 242-251 and 258: the wait ends, get_slurm_jobs answers None (no jobs,
\* or no squeue: found is FALSE) or jobs, of which `jobs` are the endpoints
\* _build_endpoints finds accessible
PollTick(found, jobs) ==
    /\ poll.pc = "wait"
    /\ IF ~found
       THEN /\ poll' = [WaitingPoll EXCEPT !.jobs = NoJobs]
            /\ UNCHANGED known_endpoints
       ELSE LET next == Continue(jobs, jobs \ known_endpoints, known_endpoints \ jobs)
            IN  /\ poll' = next
                /\ known_endpoints' = KnownAfter(known_endpoints, next)
    /\ calls' = <<>>
    /\ UNCHANGED procs
    /\ UNCHANGED <<backend_objs, pools, model_to_pool, strategy, total_requests,
                   total_errors, requests, task, responses, held, recent,
                   tracker_clock, loops, built>>

\* an exception out of add_tunnel is not caught before line 268
AfterTunnel_RaiseIgnored(raised) == "opened"

\* line 254 returned, or raised into the handler of line 268
AfterTunnel(raised) == IF raised THEN "wait" ELSE "opened"

\* line 254, tunnels.add_tunnel: Popen or proc.wait(timeout=15) may raise
AddTunnel(e, raised) ==
    /\ poll.pc = "adding"
    /\ e \in poll.added
    /\ procs' = IF raised THEN procs ELSE procs \cup {TunnelKey(e)}
    /\ poll' = IF AfterTunnel(raised) = "wait"
               THEN [WaitingPoll EXCEPT !.jobs = poll.jobs]
               ELSE [poll EXCEPT !.pc = "opened", !.item = e]
    /\ calls' = Append(calls, <<IF raised THEN "add_tunnel_raised" ELSE "add_tunnel",
                                e[2], e[3]>>)
    /\ UNCHANGED known_endpoints
    /\ UNCHANGED <<backend_objs, pools, model_to_pool, strategy, total_requests,
                   total_errors, requests, task, responses, held, recent,
                   tracker_clock, loops, built>>

\* line 255, proxy.add_backend on the poll thread
PollAddBackend ==
    /\ poll.pc = "opened"
    /\ LET e    == poll.item
           next == Continue(poll.current, poll.added \ {e}, poll.removed)
       IN  /\ proxy_add_backend(e[1], "localhost", e[3], e[4])
           /\ poll' = next
           /\ known_endpoints' = KnownAfter(known_endpoints, next)
           /\ calls' = Append(calls, <<"add_backend", "localhost", e[3]>>)
    /\ UNCHANGED <<procs, built>>

\* line 262, proxy.remove_backend on the poll thread
PollRemoveBackend(e) ==
    /\ poll.pc = "removing"
    /\ e \in poll.removed
    /\ proxy_remove_backend("localhost", e[3])
    /\ poll' = [poll EXCEPT !.pc = "closing", !.item = e]
    /\ calls' = Append(calls, <<"remove_backend", "localhost", e[3]>>)
    /\ UNCHANGED <<known_endpoints, procs, built>>

\* line 263, tunnels.remove_tunnel
RemoveTunnel ==
    /\ poll.pc = "closing"
    /\ LET e    == poll.item
           next == Continue(poll.current, poll.added, poll.removed \ {e})
       IN  /\ procs' = procs \ {TunnelKey(e)}
           /\ poll' = next
           /\ known_endpoints' = KnownAfter(known_endpoints, next)
           /\ calls' = Append(calls, <<"remove_tunnel", e[2], e[3]>>)
    /\ UNCHANGED <<backend_objs, pools, model_to_pool, strategy, total_requests,
                   total_errors, requests, task, responses, held, recent,
                   tracker_clock, loops, built>>

\* the handler of line 268 stores what the tick enumerated
Caught_Replaces(known, current) == current

\* lines 265-269: an exception skips clear() and update(); the handler prints
Caught(known, current) == known

\* a step of the tick other than add_tunnel raises into line 268:
\* get_slurm_jobs or _build_endpoints (line 244-248), proxy.add_backend (line
\* 255), proxy.remove_backend for e (line 262), tunnels.remove_tunnel (line
\* 263) before or after it popped the key (ssh.py:119)
PollRaise(e, popped) ==
    /\ poll.pc \in {"wait", "opened", "removing", "closing"}
    /\ poll.pc = "removing" => e \in poll.removed
    /\ poll.pc # "removing" => e = (IF poll.pc = "wait" THEN <<>> ELSE poll.item)
    /\ poll.pc # "closing" => ~popped
    /\ poll' = [WaitingPoll EXCEPT !.jobs = IF poll.pc = "wait" THEN "raised" ELSE poll.jobs]
    /\ calls' = CASE poll.pc = "wait" -> <<<<"get_slurm_jobs_raised", "", None>>>>
                  [] poll.pc = "opened" ->
                        Append(calls, <<"add_backend_raised", "localhost", e[3]>>)
                  [] poll.pc = "removing" ->
                        Append(calls, <<"remove_backend_raised", "localhost", e[3]>>)
                  [] poll.pc = "closing" ->
                        Append(calls, <<"remove_tunnel_raised", e[2], e[3]>>)
    /\ procs' = IF popped THEN procs \ {TunnelKey(e)} ELSE procs
    /\ known_endpoints' = Caught(known_endpoints, poll.current)
    /\ UNCHANGED <<backend_objs, pools, model_to_pool, strategy, total_requests,
                   total_errors, requests, task, responses, held, recent,
                   tracker_clock, loops, built>>

\* server.py:301-351 and backend.py:81-86 on the event loop thread: the handler
\* has the pool's lock, has filtered the healthy backends and selected one
Select(s, model) ==
    LET pi == LookupPool(pools, model_to_pool, model)
        g  == IF pi = 0 THEN [backend |-> None, index |-> 0]
              ELSE get_backend(backend_objs, pools[pi], strategy)
    IN  IF g.backend = None
        THEN Begin(s, model, "send")
        ELSE /\ FreeSlots # {}
             /\ s = MinOf(FreeSlots)
             /\ total_requests' = total_requests + 1
             /\ requests' = submit(requests, session_turn_counters,
                                   total_requests + 1, "", now).requests
             /\ pools' = [pools EXCEPT ![pi].index = g.index]
             /\ task' = [task EXCEPT ![s] =
                    [pc |-> "selected", rid |-> total_requests + 1,
                     model |-> model, backend |-> g.backend]]
             /\ UNCHANGED <<manager_state, loops, backend_objs, model_to_pool, strategy,
                            total_errors, responses, held, recent, tracker_clock>>

\* backend.py:87-88 and server.py:362: inflight += 1, the lock is released,
\* start_processing, the upstream request is issued
Increment(s) ==
    /\ task[s].pc = "selected"
    /\ LET b == task[s].backend
       IN  /\ backend_objs' = Acquire(backend_objs, b)
           /\ held' = [held EXCEPT ![b] = @ + 1]
           /\ requests' = start_processing(requests, task[s].rid,
                                           url(backend_objs[b]), now)
           /\ task' = [task EXCEPT ![s].pc = "upstream"]
    /\ UNCHANGED <<manager_state, loops, pools, model_to_pool, strategy, total_requests,
                   total_errors, responses, recent, tracker_clock>>

NextPoll ==
    \/ \E found \in BOOLEAN, jobs \in JobSets : PollTick(found, jobs)
    \/ \E e \in PollEndpoints, raised \in BOOLEAN : AddTunnel(e, raised)
    \/ PollAddBackend
    \/ \E e \in PollEndpoints : PollRemoveBackend(e)
    \/ RemoveTunnel
    \/ \E e \in PollEndpoints \cup {<<>>}, popped \in BOOLEAN : PollRaise(e, popped)
    \/ total_requests < MaxRequests /\ Select(1, "m1")
    \/ Resolve(1, {}, "send")
    \/ Increment(1)
    \/ \E lat \in Latencies : Upstream(1, Answered, lat)

SpecPoll == InitPoll /\ [][NextPoll]_vars

\* ------------------------------------------------ load under the probes
\* A pool of two backends under the strategies that minimise a key: the health
\* probes and the load refresh loop read /metrics texts of up to one line per
\* metric while requests are dispatched and answered.
KeyStrategies == {"least_connections", "least_latency", "least_load"}

\* the value vLLM reports for a metric, in tenths
ReportedTenths(name) == IF name = "running" THEN 25 ELSE 15

MetricLines ==
    {Line(name, "ok", ReportedTenths(name)) : name \in MetricNames}
    \cup {Line(name, how, 0) : name \in MetricNames, how \in {"bad", "inf"}}

MetricTexts ==
    {<<>>} \cup {<<l>> : l \in MetricLines}
    \cup {<<l, k>> : l \in {x \in MetricLines : x.name = "running"},
                     k \in {x \in MetricLines : x.name = "waiting"}}

MetricsOutcomes == {NoMetrics} \cup {[kind |-> "text", text |-> t] : t \in MetricTexts}

\* /metrics answering both metrics
FullMetrics ==
    [kind |-> "text",
     text |-> <<Line("running", "ok", ReportedTenths("running")),
                Line("waiting", "ok", ReportedTenths("waiting"))>>]

LoadProbeResults ==
    {[exc |-> FALSE, status |-> 200, metrics |-> m] : m \in MetricsOutcomes}
    \cup {[exc |-> FALSE, status |-> st, metrics |-> m] :
             st \in {499, 500}, m \in {NoMetrics, FullMetrics}}
    \cup {[exc |-> TRUE, status |-> None, metrics |-> m] :
             m \in {NoMetrics, FullMetrics}}

InitLoad == InitRegistered(KeyStrategies, {Len(Endpoints)})

\* server.py:517-521: the load refresh of one healthy backend
refresh_healthy(id, m) ==
    /\ id \in Members(pools)
    /\ backend_objs[id].healthy
    /\ backend_objs' = [backend_objs EXCEPT ![id] = refresh_backend_load(@, m)]
    /\ UNCHANGED <<manager_state, pools, model_to_pool, strategy, total_requests,
                   total_errors, requests, task, responses, held, recent,
                   tracker_clock>>

\* server.py:512-523, _gpu_load_refresh_loop on one healthy backend
gpu_load_refresh(id, m) ==
    /\ refresh_healthy(id, m)
    /\ UNCHANGED loops

NextLoad ==
    \/ \E id \in HeapIds, res \in LoadProbeResults : check_single_backend(id, res)
    \/ \E id \in HeapIds, m \in MetricsOutcomes : gpu_load_refresh(id, m)
    \/ \E s \in 1..MaxHandlers :
          total_requests < MaxRequests /\ Begin(s, "m1", "send")
    \/ \E s \in 1..MaxHandlers, lat \in Latencies : Upstream(s, Answered, lat)

SpecLoad == InitLoad /\ [][NextLoad]_vars

\* ------------------------------------------- the supervised background loops
\* crashes a loop goes through
MaxCrashes == 2

\* the supervisor returns after its wait instead of awaiting the loop again
AfterSleep_Exits == "exited"

\* server.py:497-499: `while True` awaits loop_fn() again after the wait
AfterSleep == "running"

Running(name) == loops[name].pc = "running"

\* start(): the initial probe of every backend, the model discovery, then one
\* supervised task per loop
start(results, responding) ==
    /\ \A name \in LoopNames : loops[name].pc = "none"
    /\ LET objs == [id \in HeapIds |->
                       IF id \in Members(pools)
                       THEN Probed(backend_objs[id], results[id])
                       ELSE backend_objs[id]]
       IN  /\ backend_objs' = objs
           /\ model_to_pool' = fetch_backend_models(objs, pools, model_to_pool, responding)
    /\ recent' = [id \in HeapIds |->
                     IF /\ id \in Members(pools)
                        /\ ~results[id].exc
                        /\ results[id].status < 500
                     THEN ProbeSucceeded(recent[id])
                     ELSE recent[id]]
    /\ loops' = [name \in LoopNames |-> [pc |-> "running", crashes |-> 0]]
    /\ UNCHANGED <<manager_state, pools, strategy, total_requests, total_errors,
                   requests, task, responses, held, tracker_clock>>

\* _health_check_loop: a pass probes the backends, one probe a step
HealthPass(id, res) ==
    /\ Running("health_check")
    /\ probe_backend(id, res)
    /\ UNCHANGED loops

\* _gpu_load_refresh_loop: a pass refreshes the healthy backends
LoadPass(id, m) ==
    /\ Running("gpu_load_refresh")
    /\ refresh_healthy(id, m)
    /\ UNCHANGED loops

\* server.py:502-504: loop_fn raised an Exception; the supervisor logs it and
\* waits one second
LoopCrash(name) ==
    /\ Running(name)
    /\ loops[name].crashes < MaxCrashes
    /\ loops' = [loops EXCEPT ![name] = [pc |-> "restarting", crashes |-> @.crashes + 1]]
    /\ UNCHANGED <<manager_state, proxy_state, total_requests, requests, tracker_clock>>

\* server.py:504, 497: the wait is over
LoopRestart(name) ==
    /\ loops[name].pc = "restarting"
    /\ loops' = [loops EXCEPT ![name].pc = AfterSleep]
    /\ UNCHANGED <<manager_state, proxy_state, total_requests, requests, tracker_clock>>

\* stop(): every task is cancelled and awaited; CancelledError leaves the
\* supervisor from loop_fn (line 500-501) or from its wait (line 504)
stop ==
    /\ \E name \in LoopNames : loops[name].pc \in {"running", "restarting"}
    /\ loops' = [name \in LoopNames |->
                    IF loops[name].pc \in {"running", "restarting"}
                    THEN [loops[name] EXCEPT !.pc = "cancelled"]
                    ELSE loops[name]]
    /\ UNCHANGED <<manager_state, proxy_state, total_requests, requests, tracker_clock>>

InitSupervise == InitRegistered({DEFAULT_STRATEGY}, {Len(Endpoints)})

NextSupervise ==
    \/ \E results \in [HeapIds -> ProbeResults], responding \in SUBSET PoolNames :
          start(results, responding)
    \/ \E id \in HeapIds, res \in ProbeResults : HealthPass(id, res)
    \/ \E id \in HeapIds, m \in {NoMetrics, FullMetrics} : LoadPass(id, m)
    \/ \E name \in LoopNames : LoopCrash(name)
    \/ \E name \in LoopNames : LoopRestart(name)
    \/ stop

\* the event loop ends the supervisor's one-second wait
SpecSupervise ==
    /\ InitSupervise
    /\ [][NextSupervise]_vars
    /\ \A name \in LoopNames : WF_vars(LoopRestart(name))

\* ------------------------------------------- requests whose upstream call ends
\* The handlers of a registered pool on the event loop: every way through
\* lines 351-412, every outcome of the upstream call, probes in between.  The
\* upstream call of a suspended handler ends: aiohttp answers, fails or times
\* out after request_timeout.
UpstreamEnds(s) == \E out \in Outcomes, lat \in Latencies : Upstream(s, out, lat)

InitRelease == InitRegistered({DEFAULT_STRATEGY}, {Len(Endpoints)})

NextRelease ==
    \/ \E s \in 1..MaxHandlers, how \in ForwardHows :
          total_requests < MaxRequests /\ Begin(s, "m1", how)
    \/ \E s \in 1..MaxHandlers : UpstreamEnds(s)
    \/ \E id \in HeapIds, res \in ProbeResults : check_single_backend(id, res)

SpecRelease ==
    /\ InitRelease
    /\ [][NextRelease]_vars
    /\ \A s \in 1..MaxHandlers : WF_vars(UpstreamEnds(s))

\* ------------------------------------------- one address in two pools
\* Two models served through the same local port: pool m1 holds both
\* endpoints, pool m2 a backend of its own at the first one's address; one
\* handler serves the requests.
SharedPools == <<"m1", "m2">>

SharedSlot == Len(Endpoints) + 1

\* a probe is answered 200 or not at all
SharedProbeResults == {res \in ProbeResults : res.status \in {200, None}}

\* the models asked for: the pools by name, an id that pool m2 advertises, a
\* name no pool goes by
SharedModels == Range(SharedPools) \cup {"M1", "zz"}

InitShared ==
    /\ backend_objs =
          [id \in HeapIds |->
              IF id <= Len(Endpoints) THEN Backend(Endpoints[id][2], Endpoints[id][3], "p1")
              ELSE IF id = SharedSlot THEN Backend(Endpoints[1][2], Endpoints[1][3], "p1")
              ELSE NoBackend]
    /\ pools = <<[BackendPool(SharedPools[1]) EXCEPT
                     !.backends = [i \in 1..Len(Endpoints) |-> i]],
                 [BackendPool(SharedPools[2]) EXCEPT !.backends = <<SharedSlot>>]>>
    /\ model_to_pool = <<>>
    /\ strategy = DEFAULT_STRATEGY
    /\ total_requests = 0
    /\ total_errors = 0
    /\ requests = <<>>
    /\ session_turn_counters = <<>>
    /\ now = 1
    /\ last_cleanup = 0
    /\ issued = <<>>
    /\ evicted = <<>>
    /\ status_out = NoStatus
    /\ task = [s \in 1..MaxHandlers |-> IdleTask]
    /\ responses = <<>>
    /\ held = [id \in HeapIds |-> 0]
    /\ recent = [id \in HeapIds |-> NoCalls]
    /\ NoManager
    /\ loops = NoTasks

NextShared ==
    \/ \E h \in Hosts, p \in Ports : remove_backend(h, p)
    \/ \E h \in Hosts, p \in Ports : add_backend(SharedPools[1], h, p, "p1")
    \/ \E model \in SharedModels :
          total_requests < MaxRequests /\ Begin(1, model, "send")
    \/ \E responding \in SUBSET Range(SharedPools) : Resolve(1, responding, "send")
    \/ \E lat \in Latencies : Upstream(1, Answered, lat)
    \/ \E id \in HeapIds, res \in SharedProbeResults : check_single_backend(id, res)

SpecShared == InitShared /\ [][NextShared]_vars

\* ------------------------------------------- jobs that move
\* The poll thread by itself, with a job that comes back on another node or
\* in another partition: its endpoint keeps the model's port.
MovedEndpoints ==
    PollEndpoints \cup {<<Endpoints[1][1], PollNode, Endpoints[1][3], "p2">>,
                        <<Endpoints[1][1], "n2", Endpoints[1][3], "p1">>}

\* a replica is one job: an enumeration has one endpoint a port
MovedJobSets ==
    {E \in SUBSET MovedEndpoints : \A e, f \in E : e[3] = f[3] => e = f}

NextMoved ==
    \/ \E found \in BOOLEAN, jobs \in MovedJobSets : PollTick(found, jobs)
    \/ \E e \in MovedEndpoints, raised \in BOOLEAN : AddTunnel(e, raised)
    \/ PollAddBackend
    \/ \E e \in MovedEndpoints : PollRemoveBackend(e)
    \/ RemoveTunnel
    \/ \E e \in MovedEndpoints \cup {<<>>}, popped \in BOOLEAN : PollRaise(e, popped)

SpecMoved == InitPoll /\ [][NextMoved]_vars

\* ------------------------------------------- squeue rows made endpoints
SpecBuild == Init /\ [][NextBuild]_vars

TypeOK ==
    /\ \A id \in HeapIds : backend_objs[id].inflight >= 0

\* ================================================================= claims
RECURSIVE Sum(_, _)
Sum(f, S) ==
    IF S = {} THEN 0
    ELSE LET x == CHOOSE y \in S : TRUE IN f[x] + Sum(f, S \ {x})

Inflight == [id \in HeapIds |-> backend_objs[id].inflight]

\* the pool an endpoint is registered with
PoolNameOf(b) ==
    Endpoints[CHOOSE i \in 1..Len(Endpoints) :
                 Endpoints[i][2] = b.host /\ Endpoints[i][3] = b.port][1]

\* the Backends acquired through pool pi that are still referenced: its
\* members, and those taken out of it that a handler still serves
AcquiredThrough(pi) ==
    {id \in HeapIds : /\ backend_objs[id] # NoBackend
                      /\ PoolNameOf(backend_objs[id]) = pools[pi].model}

Finished(vias) == {rid \in DOMAIN responses : responses[rid].via \in vias}

\* C1 as stated: for every pool, the sum of inflight over the pool's backends
\* equals the number of acquires made on that pool and not yet released.
C1_PoolSumIsOutstanding ==
    \A pi \in 1..Len(pools) :
        Sum(Inflight, Range(pools[pi].backends)) = Sum(held, AcquiredThrough(pi))

\* C1 amended: every Backend's inflight equals the number of acquires of that
\* Backend not yet released (held goes up by one at each acquire and down by
\* one when the request finishes, on any path), whether or not the Backend is
\* still in its pool; so a pool's sum counts the unreleased acquires on the
\* backends currently in it.
C1_InflightIsOutstanding ==
    /\ \A id \in HeapIds : backend_objs[id].inflight = held[id]
    /\ \A pi \in 1..Len(pools) :
          Sum(Inflight, Range(pools[pi].backends)) = Sum(held, Range(pools[pi].backends))

\* a request has finished through the upstream call while another is on the
\* wire to a Backend that remove_backend has taken out of its pool
C1_Witness ==
    /\ Finished({"response", "timeout", "transport"}) # {}
    /\ \E s \in DOMAIN task :
          /\ task[s].pc = "upstream"
          /\ task[s].backend \notin Members(pools)
          /\ backend_objs[task[s].backend].inflight = 1

\* C2 as stated: the increment made by get_backend is undone on every exit
\* path of the handler, so the only increments outstanding are those of
\* handlers still waiting for their upstream call.
C2_ReleasedOnEveryExit ==
    \A id \in HeapIds :
        backend_objs[id].inflight =
            Cardinality({s \in DOMAIN task :
                            task[s].pc = "upstream" /\ task[s].backend = id})

\* ------------------------------------------------ claims on SpecDispatch
\* the step is a dispatch: _proxy_request started for request total_requests'
Dispatched == total_requests' = total_requests + 1

IsUp(id) == backend_objs[id].healthy

\* the healthy backends of the pool, in pool order, read off the state
HealthyList == SelectSeq(pools[1].backends, IsUp)

\* C3: a dispatch hands the request to a backend only if that backend is in
\* the pool with healthy = TRUE in the state the acquire is made in, and is
\* refused (503, nothing acquired) exactly when the pool has no healthy
\* backend; a refusal changes no inflight counter and no rotation index.
C3_OnlyHealthyAcquired ==
    [][Dispatched =>
         LET rid == total_requests'
         IN  IF HealthyList = <<>>
             THEN /\ rid \in DOMAIN responses'
                  /\ responses'[rid] = Response(503, "no_backend", None)
                  /\ backend_objs' = backend_objs
                  /\ pools' = pools
                  /\ task' = task
             ELSE /\ rid \notin DOMAIN responses'
                  /\ \E s \in DOMAIN task :
                        /\ task'[s].pc = "upstream" /\ task'[s].rid = rid
                        /\ task'[s].backend \in Range(HealthyList)
                        /\ backend_objs' =
                              [backend_objs EXCEPT ![task'[s].backend].inflight = @ + 1]]_vars

\* one request was refused for want of a healthy backend, and another is on
\* the wire to a healthy backend of a pool that also holds an unhealthy one
C3_Witness ==
    /\ Finished({"no_backend"}) # {}
    /\ \E s \in DOMAIN task :
          /\ task[s].pc = "upstream"
          /\ backend_objs[task[s].backend].healthy
          /\ \E id \in Range(pools[1].backends) : ~backend_objs[id].healthy

\* the backends that k acquires in a row return, from pool state (objs, pool),
\* nothing else happening in between
RECURSIVE Acquires(_, _, _)
Acquires(objs, pool, k) ==
    IF k = 0 THEN <<>>
    ELSE LET g == get_backend(objs, pool, "round_robin")
         IN  <<g.backend>> \o Acquires(Acquire(objs, g.backend),
                                       [pool EXCEPT !.index = g.index], k - 1)

\* C10: under round_robin a dispatch returns healthy[index mod n] and advances
\* the index by one; from every reachable pool state n acquires in a row
\* return each of the n healthy backends exactly once, and with two healthy
\* backends three acquires in a row return A, B, A.
C10_RoundRobin ==
    /\ [](strategy = "round_robin" /\ HealthyList # <<>> =>
            LET n  == Len(HealthyList)
                a  == Acquires(backend_objs, pools[1], n)
                a3 == Acquires(backend_objs, pools[1], 3)
            IN  /\ Range(a) = Range(HealthyList)
                /\ \A i, j \in 1..n : a[i] = a[j] => i = j
                /\ n = 2 => a3[1] # a3[2] /\ a3[3] = a3[1]
                /\ n = 2 /\ pools[1].index = 0 =>
                      a3 = <<HealthyList[1], HealthyList[2], HealthyList[1]>>)
    /\ [][Dispatched /\ strategy = "round_robin" /\ HealthyList # <<>> =>
            /\ pools'[1].index = pools[1].index + 1
            /\ \E s \in DOMAIN task :
                  /\ task'[s].pc = "upstream" /\ task'[s].rid = total_requests'
                  /\ task'[s].backend =
                        HealthyList[(pools[1].index % Len(HealthyList)) + 1]]_vars

\* two healthy backends A, B under round_robin, both never probed unhealthy:
\* the third request is on the wire to A, the second still on the wire to B
C10_Witness ==
    /\ strategy = "round_robin"
    /\ Len(HealthyList) = 2
    /\ pools[1].index = 3
    /\ \E s, t \in DOMAIN task :
          /\ task[s].pc = "upstream" /\ task[s].rid = 3
          /\ task[s].backend = HealthyList[1]
          /\ task[t].pc = "upstream" /\ task[t].rid = 2
          /\ task[t].backend = HealthyList[2]
          /\ requests[1].status = "completed"

\* -------------------------------------------------- claims on SpecHealth
\* the request a step answers (None if the step answers none), the handler
\* that served it and the Backend it was on the wire to
AnsweredRid ==
    IF DOMAIN responses' = DOMAIN responses THEN None
    ELSE CHOOSE rid \in DOMAIN responses' : rid \notin DOMAIN responses

HandlerOf(rid) == CHOOSE s \in DOMAIN task : task[s].rid = rid

AnsweredVia(via) ==
    /\ AnsweredRid # None
    /\ responses'[AnsweredRid].via = via
    /\ \E s \in DOMAIN task : task[s].rid = AnsweredRid /\ task[s].pc = "upstream"

\* C4 as stated: a backend whose three most recent upstream calls all timed
\* out has healthy = FALSE.
C4_ThreeTimeoutsUnhealthy ==
    \A id \in Members(pools) :
        recent[id].timeouts >= TIMEOUT_THRESHOLD => ~backend_objs[id].healthy

\* C4 amended: a backend whose three most recent upstream calls all timed out
\* has healthy = FALSE unless, after the last of them, a health probe on it
\* succeeded or add_backend registered it again.
C4_ThreeTimeoutsUnhealthyUnlessRevived ==
    \A id \in Members(pools) :
        recent[id].timeouts >= TIMEOUT_THRESHOLD /\ backend_objs[id].healthy
            => recent[id].since # "down"

\* the last three calls of a backend timed out, nothing revived it since
C4_Witness ==
    \E id \in Members(pools) :
        /\ recent[id].timeouts = TIMEOUT_THRESHOLD
        /\ recent[id].since = "down"
        /\ ~backend_objs[id].healthy
        /\ backend_objs[id].consecutive_timeouts = TIMEOUT_THRESHOLD

\* C5: every request that times out is answered 504 and adds one to its
\* backend's consecutive_timeouts, which at 3 or more leaves the backend
\* unhealthy; with one backend, once requests 1, 2 and 3 have timed out and
\* nothing has revived the backend it is unhealthy, and a fourth request
\* issued then is answered 503.
C5_TimeoutEscalation ==
    /\ []((/\ {1, 2, 3} \subseteq Finished({"timeout"})
           /\ recent[1].timeouts = TIMEOUT_THRESHOLD
           /\ recent[1].since = "down")
          => /\ ~backend_objs[1].healthy
             /\ backend_objs[1].consecutive_timeouts >= TIMEOUT_THRESHOLD
             /\ \A rid \in {1, 2, 3} : responses[rid].status = 504)
    /\ [][AnsweredVia("timeout") =>
            LET rid == AnsweredRid
                b   == task[HandlerOf(rid)].backend
            IN  /\ responses'[rid].status = 504
                /\ backend_objs'[b].consecutive_timeouts =
                      backend_objs[b].consecutive_timeouts + 1
                /\ backend_objs'[b].consecutive_timeouts >= TIMEOUT_THRESHOLD
                      => ~backend_objs'[b].healthy
                /\ backend_objs'[b].consecutive_timeouts < TIMEOUT_THRESHOLD
                      => backend_objs'[b].healthy = backend_objs[b].healthy]_vars
    /\ [][(/\ Dispatched
           /\ total_requests = 3
           /\ Finished({"timeout"}) = {1, 2, 3}
           /\ recent[1].since = "down")
          => /\ 4 \in DOMAIN responses'
             /\ responses'[4].status = 503]_vars

\* three requests timed out one after the other and the fourth got a 503
C5_Witness ==
    /\ Finished({"timeout"}) = {1, 2, 3}
    /\ \A rid \in {1, 2, 3} : responses[rid].status = 504
    /\ 4 \in DOMAIN responses /\ responses[4].status = 503
    /\ backend_objs[1].consecutive_timeouts = 3
    /\ ~backend_objs[1].healthy
    /\ backend_objs[1].request_count = 3

\* C6: a transport error on an upstream call leaves the serving backend with
\* healthy = FALSE, whatever came before, counts the request and an error on
\* the backend, and answers the client 502 (the tracked request is failed).
C6_TransportError ==
    [][AnsweredVia("transport") =>
          LET rid == AnsweredRid
              b   == task[HandlerOf(rid)].backend
          IN  /\ responses'[rid].status = 502
              /\ ~backend_objs'[b].healthy
              /\ backend_objs'[b].request_count = backend_objs[b].request_count + 1
              /\ backend_objs'[b].error_count = backend_objs[b].error_count + 1
              /\ requests'[rid].status = "failed"]_vars

\* the first upstream call of a backend failed in transport
C6_Witness ==
    /\ 1 \in Finished({"transport"})
    /\ responses[1].status = 502
    /\ ~backend_objs[1].healthy
    /\ backend_objs[1].request_count = 1
    /\ backend_objs[1].error_count = 1
    /\ backend_objs[1].consecutive_timeouts = 0

\* C7 as stated: a backend that three timeouts in a row or a transport error
\* set unhealthy stays unhealthy until a health probe on it succeeds.
C7_DownUntilProbe ==
    \A id \in Members(pools) :
        recent[id].since \in {"down", "registered"} => ~backend_objs[id].healthy

\* C7 amended: such a backend stays unhealthy, and is not returned by
\* get_backend, until a health probe on it succeeds or add_backend registers
\* it again.
C7_DownUntilProbeOrRegistration ==
    \A id \in Members(pools) :
        recent[id].since = "down" =>
            /\ ~backend_objs[id].healthy
            /\ \A pi \in 1..Len(pools) :
                  get_backend(backend_objs, pools[pi], strategy).backend # id

\* a backend set unhealthy by a transport error was probed without success,
\* and a request was refused meanwhile
C7_Witness ==
    \E id \in Members(pools) :
        /\ recent[id].since = "down"
        /\ ~backend_objs[id].healthy
        /\ backend_objs[id].consecutive_timeouts < TIMEOUT_THRESHOLD
        /\ Finished({"no_backend"}) # {}

\* -------------------------------------------- claims on the tracker (Spec)
\* C8 as stated: when the upstream answers with a status >= 500 the client
\* receives that status, the backend's healthy flag is left as it was, its
\* error_count goes up by one and the tracked request ends failed.
C8_UpstreamErrorForwarded ==
    [][(/\ AnsweredRid # None
        /\ responses'[AnsweredRid].upstream # None
        /\ responses'[AnsweredRid].upstream >= 500)
       => LET rid == AnsweredRid
              b   == task[HandlerOf(rid)].backend
          IN  /\ responses'[rid].status = responses'[rid].upstream
              /\ requests'[rid].status = "failed"
              /\ backend_objs'[b] # NoBackend =>
                    /\ backend_objs'[b].healthy = backend_objs[b].healthy
                    /\ backend_objs'[b].error_count = backend_objs[b].error_count + 1]_vars

\* C9 as stated: a request whose handler has returned with a failure (404,
\* 503, 504, 502, an upstream status >= 500, or an exception raised while
\* forwarding, which the client sees as a 500) is tracked as failed, and no
\* finished request is left pending or in_flight.
C9_FailedRequestsTracked ==
    \A rid \in DOMAIN responses :
        responses[rid].via # "cancelled" =>
            /\ requests[rid].status \in {"completed", "failed"}
            /\ responses[rid].status >= 400 => requests[rid].status = "failed"

\* ---------------------------------------------------- claims on SpecFair
\* the value least_connections / least_load minimises, per Backend
LoadKey(objs, strat) ==
    IF strat = "least_connections" THEN KeyInflight(objs) ELSE KeyLoad(objs)

\* the healthy backends of the pool all have the same key
EqualKeys ==
    \A a, b \in Range(HealthyList) :
        LoadKey(backend_objs, strategy)[a] = LoadKey(backend_objs, strategy)[b]

\* rel[j] = i: among n requests acquired in a row, the j-th is released just
\* before the i-th is acquired; rel[j] = 0: it is still held after the n-th
ReleasePatterns(n) ==
    {rel \in [1..n -> 0..n] : \A j \in 1..n : rel[j] = 0 \/ rel[j] > j}

NoneReleased(n) == [j \in 1..n |-> 0]

EachReleasedBeforeNext(n) == [j \in 1..n |-> IF j < n THEN j + 1 ELSE 0]

\* the requests among got[1..j] that are due before the next acquire, released
RECURSIVE ReleaseDue(_, _, _, _)
ReleaseDue(objs, got, rel, j) ==
    IF j = 0 THEN objs
    ELSE LET o == ReleaseDue(objs, got, rel, j - 1)
         IN  IF rel[j] = Len(got) + 1 THEN Release(o, got[j]) ELSE o

\* the backends n acquires in a row return under release pattern rel
RECURSIVE AcquiresReleasing(_, _, _, _, _, _)
AcquiresReleasing(objs, pool, strat, n, rel, got) ==
    IF Len(got) = n THEN got
    ELSE LET o == ReleaseDue(objs, got, rel, Len(got))
             g == get_backend(o, pool, strat)
         IN  AcquiresReleasing(Acquire(o, g.backend),
                               [pool EXCEPT !.index = g.index], strat, n, rel,
                               Append(got, g.backend))

EachOnce(a) ==
    /\ Range(a) = Range(HealthyList)
    /\ \A i, j \in 1..Len(a) : a[i] = a[j] => i = j

FairUnder(rel) ==
    EachOnce(AcquiresReleasing(backend_objs, pools[1], strategy,
                               Len(HealthyList), rel, <<>>))

\* C11 as stated: under least_connections and least_load, from a pool of
\* n >= 2 healthy backends that all have the same key, n acquires in a row
\* return each backend exactly once, whichever of the earlier requests are
\* released before the later ones are acquired.
C11_EachOnceAnyReleases ==
    strategy \in LoadStrategies /\ Len(HealthyList) >= 2 /\ EqualKeys =>
        \A rel \in ReleasePatterns(Len(HealthyList)) : FairUnder(rel)

\* C11 amended: under least_connections and least_load, from a pool of n >= 2
\* healthy backends that all have the same key, n acquires in a row return
\* each backend exactly once when none of the earlier requests is released in
\* between, when each is released before the next acquire, and, for n = 2,
\* under every release pattern.
C11_EachOnceHeldOrReleased ==
    strategy \in LoadStrategies /\ Len(HealthyList) >= 2 /\ EqualKeys =>
        LET n == Len(HealthyList)
        IN  /\ FairUnder(NoneReleased(n))
            /\ FairUnder(EachReleasedBeforeNext(n))
            /\ n = 2 => \A rel \in ReleasePatterns(n) : FairUnder(rel)

\* three backends: the first two requests were answered by two of them and
\* the third request is on the wire to the remaining one
C11_Witness ==
    /\ strategy \in LoadStrategies
    /\ Len(HealthyList) = 3
    /\ pools[1].index = 3
    /\ {1, 2, 3} \subseteq DOMAIN requests
    /\ requests[1].status = "completed"
    /\ requests[2].status = "completed"
    /\ requests[3].status = "in_flight"
    /\ \A i, j \in 1..3 : requests[i].backend = requests[j].backend => i = j

\* ------------------------------------------------- claims on SpecTracker
\* C12: for each session id s the turn numbers submit has issued to requests
\* of s are 1, 2, ..., K in this order, K being the session's turn counter;
\* the requests of s in the store carry numbers of 1..K, no step decrements a
\* counter or removes it, and an eviction pass leaves the counters as they are.
C12_TurnNumbersDense ==
    /\ [](/\ DOMAIN issued = DOMAIN session_turn_counters
          /\ "" \notin DOMAIN session_turn_counters
          /\ \A s \in DOMAIN issued :
                issued[s] = [i \in 1..session_turn_counters[s] |-> i]
          /\ \A rid \in DOMAIN requests :
                IF requests[rid].session_id = ""
                THEN requests[rid].turn_number = None
                ELSE /\ requests[rid].session_id \in DOMAIN session_turn_counters
                     /\ requests[rid].turn_number \in
                           1..session_turn_counters[requests[rid].session_id])
    /\ [][/\ \A s \in DOMAIN session_turn_counters :
                /\ s \in DOMAIN session_turn_counters'
                /\ session_turn_counters'[s] >= session_turn_counters[s]
          /\ last_cleanup' # last_cleanup =>
                session_turn_counters' = session_turn_counters]_vars

\* request 1 of session s1 got turn 1 and was evicted; request 2 of s1,
\* submitted to the then empty store, got turn 2
C12_Witness ==
    /\ "s1" \in DOMAIN issued
    /\ issued["s1"] = <<1, 2>>
    /\ 1 \in DOMAIN evicted
    /\ DOMAIN requests = {2}
    /\ requests[2].session_id = "s1"
    /\ requests[2].turn_number = 2
    /\ requests[2].submitted_at >= last_cleanup

\* Python's `x or y` on a timestamp
Or(x, y) == IF x # None THEN x ELSE y

\* C13 as stated: for every tracked request in the store, in every reachable
\* state, submitted_at <= (started_at or now) <= (completed_at or now).
C13_TimestampsOrdered ==
    \A rid \in DOMAIN requests :
        /\ requests[rid].submitted_at <= Or(requests[rid].started_at, now)
        /\ Or(requests[rid].started_at, now) <= Or(requests[rid].completed_at, now)

\* C13 amended: for every tracked request in the store, in every reachable
\* state, submitted_at <= started_at when started_at is set, submitted_at <=
\* completed_at when completed_at is set, no timestamp is later than now, an
\* in_flight request has started_at set, a completed or failed request has
\* completed_at set, and started_at <= completed_at for a completed or failed
\* request that was started.
C13_TimestampsOrderedWhenSet ==
    \A rid \in DOMAIN requests :
        LET req == requests[rid]
        IN  /\ req.submitted_at <= now
            /\ req.started_at # None =>
                  req.submitted_at <= req.started_at /\ req.started_at <= now
            /\ req.completed_at # None =>
                  req.submitted_at <= req.completed_at /\ req.completed_at <= now
            /\ req.status = "in_flight" => req.started_at # None
            /\ IsDone(req) => req.completed_at # None
            /\ IsDone(req) /\ req.started_at # None =>
                  req.started_at <= req.completed_at

\* two requests in the store after the clock has advanced: one started and
\* then completed, one completed as failed without ever being started
C13_Witness ==
    \E rid, other \in DOMAIN requests :
        /\ requests[rid].status = "completed"
        /\ requests[rid].submitted_at < requests[rid].started_at
        /\ requests[rid].started_at < requests[rid].completed_at
        /\ requests[other].status = "failed"
        /\ requests[other].started_at = None
        /\ requests[other].completed_at < now

\* the eviction loop is asleep: the pass due at this time, if any, has run
PassesDone == now < last_cleanup + cleanup_interval

LastChange(req) == Max(req.submitted_at, req.started_at)

\* C15 as stated: a request that has stayed pending or in_flight with no state
\* change for stale_timeout is not in the store.
C15_GoneAfterStaleTimeout ==
    \A rid \in DOMAIN requests :
        IsOpen(requests[rid]) /\ PassesDone =>
            now - LastChange(requests[rid]) < stale_timeout

\* C15 amended: a pending or in_flight request is not in the store after the
\* first eviction pass that runs more than stale_timeout after its last state
\* change; with a pass every cleanup_interval it is gone before stale_timeout
\* + cleanup_interval has elapsed since that change. The pass measures from
\* submitted_at: for a request never completed both bounds hold from its
\* submitted_at.
C15_GoneAfterNextStalePass ==
    \A rid \in DOMAIN requests :
        LET req   == requests[rid]
            Since(t) == /\ last_cleanup <= t + stale_timeout
                        /\ PassesDone => now - t < stale_timeout + cleanup_interval
        IN  IsOpen(req) =>
                /\ Since(LastChange(req))
                /\ req.completed_at = None => Since(req.submitted_at)

\* a request that was submitted and never completed has been removed by a
\* pass, and the store is empty
C15_Witness ==
    /\ requests = <<>>
    /\ \E rid \in DOMAIN evicted : evicted[rid] = "stale"

\* a step of the eviction loop
Pass == last_cleanup' # last_cleanup

\* C16 as stated: after every eviction pass the store holds at most
\* max_history tracked requests.
C16_BoundedByMaxHistory ==
    [][Pass => Cardinality(DOMAIN requests') <= max_history]_vars

\* C16 amended: after every eviction pass the store holds at most max_history
\* tracked requests or only pending and in_flight ones, none of them
\* submitted more than stale_timeout before the pass; it holds at most as many
\* as the larger of max_history and the number of pending and in_flight
\* requests before the pass.
C16_BoundedUnlessOpen ==
    [][Pass =>
         LET open == {rid \in DOMAIN requests : IsOpen(requests[rid])}
         IN  /\ \/ Cardinality(DOMAIN requests') <= max_history
                \/ \A rid \in DOMAIN requests' :
                      /\ IsOpen(requests'[rid])
                      /\ requests'[rid].submitted_at >= now' - stale_timeout
             /\ Cardinality(DOMAIN requests') <= Max(max_history, Cardinality(open))
             /\ DOMAIN requests' \subseteq DOMAIN requests]_vars

\* a pass has just cut the store down to max_history by dropping a completed
\* request that was not yet old
C16_Witness ==
    /\ last_cleanup = now
    /\ Cardinality(DOMAIN requests) = max_history
    /\ \E rid \in DOMAIN evicted : evicted[rid] = "excess"
    /\ \A rid \in DOMAIN requests : requests[rid].submitted_at < now

\* --------------------------------------------------- claims on SpecStatus
\* the requests of the store with the given status
WithStatus(status) == {rid \in DOMAIN requests : requests[rid].status = status}

\* C17: for any store contents get_status returns at most 50 entries in its
\* pending list and at most 50 in its in_flight list: each list holds the
\* first 50 of the requests with that status, or all of them if fewer, and
\* the counts of the summary are not cut.
C17_StatusListsCapped ==
    /\ Len(status_out.pending) <= 50
    /\ Len(status_out.in_flight) <= 50
    /\ LET out == get_status(requests, now)
       IN  /\ Len(out.pending) = Min(STATUS_LIMIT, Cardinality(WithStatus("pending")))
           /\ Len(out.in_flight) = Min(STATUS_LIMIT, Cardinality(WithStatus("in_flight")))
           /\ Range(out.pending) \subseteq WithStatus("pending")
           /\ Range(out.in_flight) \subseteq WithStatus("in_flight")
           /\ out.summary.pending = Cardinality(WithStatus("pending"))
           /\ out.summary.in_flight = Cardinality(WithStatus("in_flight"))

\* get_status has answered for a store of more than 50 pending and more than
\* 50 in_flight requests
C17_Witness ==
    /\ status_out.summary.pending > STATUS_LIMIT
    /\ status_out.summary.in_flight > STATUS_LIMIT
    /\ Len(status_out.pending) = STATUS_LIMIT
    /\ Len(status_out.in_flight) = STATUS_LIMIT

\* ----------------------------------------------------- claims on SpecPool
\* the (host, port) pairs a call can name, registered or not
Urls == {<<h, p>> : h \in Hosts, p \in Ports}

\* add_backend(host, port, partition) on pool pi, which contains (host, port):
\* no backend is added, that backend is healthy, its partition is `expected`,
\* and nothing else changes
ReAdded(pi, u, partition, expected) ==
    LET i  == FindBackend(backend_objs, pools[pi], u[1], u[2])
        id == pools[pi].backends[i]
        r  == pool_add_backend(backend_objs, pools, pi, u[1], u[2], partition)
    IN  /\ r.pools = pools
        /\ r.objs = [backend_objs EXCEPT ![id].healthy = TRUE,
                                         ![id].partition = expected]

NoDuplicates ==
    \A pi \in 1..Len(pools) : \A i, j \in 1..Len(pools[pi].backends) :
        url(backend_objs[pools[pi].backends[i]]) =
            url(backend_objs[pools[pi].backends[j]]) => i = j

Contains(pi, u) == FindBackend(backend_objs, pools[pi], u[1], u[2]) # 0

ForeignUrl == <<"otherhost", Endpoints[1][3]>>

\* C19: remove_backend(host, port) on a pool that does not contain (host,
\* port) returns false and leaves the backend list and the rotation index as
\* they are; on a pool that contains it, true is returned and the list is the
\* old one without that backend, the others in their order and the rotation
\* index as it was. The call writes no field of any backend.
C19_RemoveExactlyThat ==
    \A pi \in 1..Len(pools), u \in Urls \cup {ForeignUrl} :
        LET pool    == pools[pi]
            r       == pool_remove_backend(backend_objs, pool, u[1], u[2])
            ret     == pool_remove_backend_returns(backend_objs, pool, u[1], u[2])
            Other(id) == url(backend_objs[id]) # u
        IN  IF \A id \in Range(pool.backends) : Other(id)
            THEN ret = FALSE /\ r = pool
            ELSE /\ ret = TRUE
                 /\ r.backends = SelectSeq(pool.backends, Other)
                 /\ Len(r.backends) = Len(pool.backends) - 1
                 /\ r.index = pool.index
                 /\ r.model = pool.model

\* the second of two backends was removed while it served a request: the pool
\* keeps the first, with its rotation index, and removing the same (host,
\* port) again returns false
C19_Witness ==
    /\ Len(pools) = 1
    /\ pools[1].index = 2
    /\ Len(pools[1].backends) = 1
    /\ url(backend_objs[pools[1].backends[1]]) = <<Endpoints[1][2], Endpoints[1][3]>>
    /\ \E s \in DOMAIN task :
          /\ task[s].pc = "upstream"
          /\ task[s].backend \notin Members(pools)
          /\ ~pool_remove_backend_returns(backend_objs, pools[1],
                                          backend_objs[task[s].backend].host,
                                          backend_objs[task[s].backend].port)

\* ---------------------------------------- claims on repeated tracker calls
\* a submit call on a request id that is in the store
Resubmitted ==
    /\ total_requests' = total_requests + 1
    /\ DOMAIN requests' = DOMAIN requests

\* C20 as stated: a second submit with the same request_id leaves the stored
\* entry and the session's turn counter as the first submit made them; a
\* second start_processing or complete leaves the entry as the last call
\* sets it.
C20_SubmitFirstWins ==
    /\ [][Resubmitted =>
            /\ requests' = requests
            /\ session_turn_counters' = session_turn_counters]_vars
    /\ [](\A rid \in DOMAIN requests, b1, b2 \in BackendUrls \cup {<<>>},
             ok1, ok2 \in BOOLEAN :
             /\ start_processing(start_processing(requests, rid, b1, now),
                                 rid, b2, now + 1)
                  = start_processing(requests, rid, b2, now + 1)
             /\ complete(complete(requests, rid, ok1, now), rid, ok2, now + 1)
                  = complete(requests, rid, ok2, now + 1))


\* ---------------------------------------------------------------- C21
\* the pool of that name, as position in the pools (0: none)
ExactHit(model) == PoolPos(pools, model)

\* the existing pool the map `map` names for the model (0: none)
MapHit(map, model) ==
    IF model \in DOMAIN map THEN PoolPos(pools, map[model]) ELSE 0

\* the first pool whose name, cases ignored, contains the requested name or is
\* contained in it (0: none, or no name requested)
SubstringHit(model) ==
    LET wanted == Lower(Chars(model))
        hits   == {i \in 1..Len(pools) :
                      \/ IsSubstring(wanted, Lower(Chars(pools[i].model)))
                      \/ IsSubstring(Lower(Chars(pools[i].model)), wanted)}
    IN  IF wanted = <<>> \/ hits = {} THEN 0 ELSE MinOf(hits)

\* the step hands request rid of handler s to pool pi: a backend of that pool
\* is called, or the pool has no healthy backend and the answer is a 503
RoutedTo(s, rid, pi) ==
    \/ /\ task'[s].pc = "upstream"
       /\ task'[s].rid = rid
       /\ task'[s].backend \in Range(pools[pi].backends)
       /\ rid \notin DOMAIN responses'
    \/ /\ \A id \in Range(pools[pi].backends) : ~backend_objs[id].healthy
       /\ rid \in DOMAIN responses'
       /\ responses'[rid].status = 503

\* the step answers request rid with 404 after completing it as failed
NotFound(s, rid) ==
    /\ rid \in DOMAIN responses'
    /\ responses'[rid].status = 404
    /\ requests'[rid].status = "failed"
    /\ task'[s].pc = "idle"

\* C21: a request is handed to the pool of the requested name if there is one,
\* else to the pool the model -> pool map names; if both miss, discovery is
\* refreshed and the request is handed to the pool the refreshed map names,
\* else to the first pool whose name matches as a substring in either
\* direction, cases ignored; only if that misses too is the request completed
\* as failed and answered with 404.
C21_ResolutionOrder ==
    [][/\ \A s \in 1..MaxHandlers, model \in ResolveModels :
             Begin(s, model, "send") =>
                LET rid == total_requests + 1
                IN  IF ExactHit(model) # 0 THEN RoutedTo(s, rid, ExactHit(model))
                    ELSE IF MapHit(model_to_pool, model) # 0
                    THEN RoutedTo(s, rid, MapHit(model_to_pool, model))
                    ELSE /\ task'[s].pc = "fetch"
                         /\ rid \notin DOMAIN responses'
                         /\ requests'[rid].status = "pending"
       /\ \A s \in 1..MaxHandlers, responding \in SUBSET Range(ResolvePools) :
             Resolve(s, responding, "send") =>
                LET rid   == task[s].rid
                    model == task[s].model
                IN  IF MapHit(model_to_pool', model) # 0
                    THEN RoutedTo(s, rid, MapHit(model_to_pool', model))
                    ELSE IF SubstringHit(model) # 0
                    THEN RoutedTo(s, rid, SubstringHit(model))
                    ELSE NotFound(s, rid)]_vars

\* a request for "m1" was handed to pool m1 while the map named m2 for it, one
\* for "M1" went to m2 through the refreshed map although m1 matches it as a
\* substring, and one was answered with 404
C21_Witness ==
    /\ "m1" \in DOMAIN model_to_pool
    /\ model_to_pool["m1"] = "m2"
    /\ \E s \in 1..MaxHandlers :
          /\ task[s].pc = "upstream"
          /\ task[s].model = "m1"
          /\ task[s].backend \in Range(pools[1].backends)
    /\ \E rid \in DOMAIN responses : responses[rid].status = 404


\* ---------------------------------------------------------------- C22
\* C22 as stated: the available list of a 404 answer holds the name of every
\* configured pool, also when discovery has filled the model -> pool map.
C22_AvailableNamesEveryPool ==
    \A rid \in DOMAIN responses :
        responses[rid].status = 404 =>
            \A i \in 1..Len(pools) : pools[i].model \in responses[rid].available


\* ------------------------------------------------- claims on the poll loop
\* the poll thread is back in stop_event.wait after a tick
TickDone == poll.pc = "wait" /\ poll.jobs # "unpolled"

\* the proxy holds a backend for the endpoint's local port
Registers(e) ==
    \E id \in Members(pools) : url(backend_objs[id]) = <<"localhost", e[3]>>

\* C23 as stated: after a tick in which the enumerator returned no jobs, no
\* endpoint is known any more, no backend of a formerly known endpoint is
\* registered and no tunnel is open.
C23_EmptyJobsRemoveAll ==
    (TickDone /\ poll.jobs = NoJobs) =>
        /\ known_endpoints = {}
        /\ procs = {}
        /\ \A e \in PollEndpoints : ~Registers(e)

\* the call the poll thread makes in this step
Calls(op) ==
    /\ Len(calls') = Len(calls) + 1
    /\ calls'[Len(calls')][1] = op

LastCall == calls[Len(calls)]

\* C24: when the poll thread calls proxy.add_backend for an endpoint, its
\* previous call was add_tunnel for that endpoint, which returned, and the
\* tunnel is in place; an add_tunnel that raises ends the tick with the pools
\* as they were; when it calls remove_tunnel for an endpoint, its previous call
\* was proxy.remove_backend for that endpoint's port.
C24_TunnelAroundBackend ==
    [][/\ Calls("add_backend") =>
             /\ calls # <<>>
             /\ LastCall = <<"add_tunnel", poll.item[2], poll.item[3]>>
             /\ calls'[Len(calls')] = <<"add_backend", "localhost", poll.item[3]>>
             /\ TunnelKey(poll.item) \in procs
       /\ Calls("add_tunnel_raised") =>
             /\ poll'.pc = "wait"
             /\ pools' = pools
             /\ backend_objs' = backend_objs
       /\ (calls # <<>> /\ LastCall[1] = "add_tunnel_raised") =>
             ~Calls("add_backend")
       /\ Calls("remove_tunnel") =>
             /\ calls # <<>>
             /\ LastCall = <<"remove_backend", "localhost", poll.item[3]>>
             /\ ~Registers(poll.item)]_vars

\* a tick that added one endpoint and removed another has made its four calls
C24_Witness ==
    /\ TickDone
    /\ \E i, j \in 1..Len(calls) :
          /\ calls[i][1] = "add_backend"
          /\ calls[j][1] = "remove_tunnel"
          /\ calls[i][3] # calls[j][3]

\* the pool the handler's request resolved to
PoolOfTask(s) == LookupPool(pools, model_to_pool, task[s].model)

\* a step of the poll thread that writes the backend list of the pool at
\* position pi or a field of one of its backends
PollMutates(pi) ==
    /\ poll' # poll
    /\ pi \in 1..Len(pools)
    /\ \/ pools'[pi].backends # pools[pi].backends
       \/ \E id \in Range(pools[pi].backends) : backend_objs'[id] # backend_objs[id]

\* C25 as stated: the poll thread writes a pool's backend list or backend
\* fields only while no handler is between the selection and the in-flight
\* increment of get_backend on that pool.
C25_PollMutatesUnderPoolLock ==
    [][\A s \in 1..MaxHandlers :
          (task[s].pc = "selected" /\ PoolOfTask(s) # 0) =>
              ~PollMutates(PoolOfTask(s))]_vars


\* ---------------------------------------------------------------- C26
\* C26: the inflight counter of every Backend object, in a pool or taken out
\* of it while a handler serves a request on it, is never negative.
C26_InflightNeverNegative ==
    \A id \in HeapIds : backend_objs[id].inflight >= 0

\* a request has been answered and its backend's counter given back while the
\* next one is in flight on a backend that was removed from its pool; a probe
\* has marked a backend of the pool unhealthy
C26_Witness ==
    /\ \E rid \in DOMAIN responses : responses[rid].status = 200
    /\ \E s \in DOMAIN task :
          /\ task[s].pc = "upstream"
          /\ task[s].backend \notin Members(pools)
          /\ backend_objs[task[s].backend].inflight = 1
    /\ \E id \in Members(pools) :
          ~backend_objs[id].healthy /\ backend_objs[id].inflight = 0


\* ---------------------------------------------------------------- C27
\* the handler whose get_backend call returned a backend in this step
Acquirer(s) ==
    /\ Dispatched
    /\ task[s].pc = "idle"
    /\ task'[s].pc = "upstream"

\* exactly the returned backend's inflight goes up by one, nothing else of any
\* Backend changes
OnlyReturnedCounted(s) ==
    /\ task'[s].backend \in Range(healthy_backends(backend_objs, pools[1]))
    /\ \A id \in HeapIds :
          backend_objs'[id] =
              IF id = task'[s].backend
              THEN [backend_objs[id] EXCEPT !.inflight = @ + 1]
              ELSE backend_objs[id]

\* C27 as stated: a get_backend call that finds a healthy backend counts
\* exactly the returned backend and advances the pool's index by one under
\* every strategy name, an unrecognised one included, which returns the first
\* healthy backend; the index never decreases.
C27_IndexAlwaysAdvances ==
    [][/\ \A s \in 1..MaxHandlers :
             Acquirer(s) =>
                /\ OnlyReturnedCounted(s)
                /\ pools'[1].index = pools[1].index + 1
                /\ strategy \notin Range(STRATEGIES) =>
                      task'[s].backend = healthy_backends(backend_objs, pools[1])[1]
       /\ pools'[1].index >= pools[1].index]_vars

\* C27, amended: as stated for the four strategies of STRATEGIES; under any
\* other strategy name the call counts exactly the returned backend, which is
\* the first healthy one, and leaves the index as it is.
C27_IndexAdvancesIfRecognised ==
    [][/\ \A s \in 1..MaxHandlers :
             Acquirer(s) =>
                /\ OnlyReturnedCounted(s)
                /\ IF strategy \in Range(STRATEGIES)
                   THEN pools'[1].index = pools[1].index + 1
                   ELSE /\ pools'[1].index = pools[1].index
                        /\ task'[s].backend =
                              healthy_backends(backend_objs, pools[1])[1]
       /\ pools'[1].index >= pools[1].index]_vars

\* under an unrecognised strategy a request went to the second backend, the
\* first one being unhealthy, and the index is where it started
C27_Witness ==
    /\ strategy \notin Range(STRATEGIES)
    /\ Len(pools[1].backends) = 2
    /\ ~backend_objs[pools[1].backends[1]].healthy
    /\ \E s \in DOMAIN task :
          /\ task[s].pc = "upstream"
          /\ task[s].backend = pools[1].backends[2]
          /\ backend_objs[task[s].backend].inflight = 1
    /\ pools[1].index = 0


\* ---------------------------------------------------------------- C28
\* the key a strategy minimises, read off a Backend
KeyOf(strat, b) ==
    IF strat = "least_connections" THEN b.inflight
    ELSE IF strat = "least_latency" THEN b.avg_latency_ms
    ELSE b.gpu_load + b.inflight

\* the backends of the list whose key is the least one, in list order
TiedOf(strat, backends) ==
    LET Least(id) ==
            \A j \in 1..Len(backends) :
                KeyOf(strat, backend_objs[id]) <= KeyOf(strat, backend_objs[backends[j]])
    IN  SelectSeq(backends, Least)

\* the non-empty lists of distinct backends of the pool, in any order
BackendLists ==
    {<<id>> : id \in Range(pools[1].backends)}
    \cup {pair \in Range(pools[1].backends) \X Range(pools[1].backends) :
             pair[1] # pair[2]}

\* the indexes a call is made with
Indexes == 0..(MaxRequests + 1)

\* C28: under least_connections, least_latency and least_load, select_backend
\* on a non-empty list and index i returns the (i mod n)-th, counted from 0,
\* of the n backends whose key is the least, in list order, and i + 1.
C28_TiedPickByIndex ==
    \A strat \in KeyStrategies, backends \in BackendLists, i \in Indexes :
        select_backend(backend_objs, backends, strat, i)
            = <<TiedOf(strat, backends)[(i % Len(TiedOf(strat, backends))) + 1],
                i + 1>>

\* backend A reports a load of 3 and has one request in flight, backend B is
\* idle, and least_load picks B at every index
C28_Witness ==
    /\ strategy = "least_load"
    /\ backend_objs[1].gpu_load = 3
    /\ backend_objs[1].inflight = 1
    /\ backend_objs[2].gpu_load = 0
    /\ backend_objs[2].inflight = 0
    /\ \A i \in Indexes :
          select_backend(backend_objs, pools[1].backends, strategy, i) = <<2, i + 1>>


\* ---------------------------------------------------------------- C29
\* the text has a line for the metric whose value is read
Parsed(text, name) ==
    \E i \in 1..Len(text) : text[i].name = name /\ text[i].how = "ok"

\* the sum of the two metrics as the text gives them
ReportedLoad ==
    IntOfFloat(ReportedTenths("running")) + IntOfFloat(ReportedTenths("waiting"))

\* C29 as stated: a load refresh whose text lacks a readable line for running
\* or for waiting leaves gpu_load as it was; gpu_load becomes running +
\* waiting only when both values are read.
C29_UnparsedLeavesLoad ==
    \A id \in Members(pools), m \in MetricsOutcomes :
        m.kind = "text" =>
            refresh_backend_load(backend_objs[id], m).gpu_load =
                IF Parsed(m.text, "running") /\ Parsed(m.text, "waiting")
                THEN ReportedLoad
                ELSE backend_objs[id].gpu_load

\* ---------------------------------------------------------------- C30
\* C30: a health probe leaves the backend healthy exactly if /health answered
\* with a status below 500, and unhealthy after a status of 500 or more or an
\* exception; after a probe that leaves it unhealthy its gpu_load is what it
\* was, whatever /metrics would answer, and after one that leaves it healthy
\* with /metrics answering both metrics its gpu_load is their sum.
C30_ProbeSetsHealth ==
    \A id \in Members(pools), res \in LoadProbeResults :
        LET after == Probed(backend_objs[id], res)
        IN  /\ after.healthy = (~res.exc /\ res.status < 500)
            /\ ~after.healthy => after.gpu_load = backend_objs[id].gpu_load
            /\ (after.healthy /\ res.metrics = FullMetrics) =>
                  after.gpu_load = ReportedLoad

\* one backend had its load refreshed while healthy and was then marked
\* unhealthy by a probe, which left the load; the other is healthy with the
\* load it started with
C30_Witness ==
    /\ ~backend_objs[1].healthy
    /\ backend_objs[1].gpu_load = ReportedLoad
    /\ backend_objs[2].healthy
    /\ backend_objs[2].gpu_load = 0

\* C31: a loop whose loop_fn raised is awaited again after the supervisor's
\* wait, however many times it crashed, unless it is cancelled meanwhile; a
\* cancelled loop stays cancelled.
C31_RestartedUnlessCancelled ==
    /\ \A name \in LoopNames :
          (loops[name].pc = "restarting") ~> (loops[name].pc \in {"running", "cancelled"})
    /\ [][\A name \in LoopNames :
             loops[name].pc = "cancelled" => loops'[name].pc = "cancelled"]_vars

C31_Witness ==
    /\ Running("health_check")
    /\ loops["health_check"].crashes = MaxCrashes
    /\ loops["gpu_load_refresh"].pc = "restarting"

\* C32 as stated: every acquire of a backend is eventually released, given
\* that every upstream call ends: a backend with an acquire outstanding
\* eventually has none.
C32_AcquiredEventuallyReleased ==
    \A id \in 1..Len(Endpoints) : (held[id] > 0) ~> (held[id] = 0)

\* ------------------------------------------------ claims on SpecTracker
\* ids the store does not hold: evicted ones and ones never submitted
Unknown == (1..(MaxTracked + 1)) \ DOMAIN requests

\* C33: start_processing and complete on an id that is not in the store give
\* the store back as it was (no entry created, re-inserted or modified), and
\* a step that makes such a call leaves the store and the session turn
\* counters unchanged.
C33_UnknownIdIsNoOp ==
    /\ [](\A rid \in Unknown, backend \in BackendUrls, success \in BOOLEAN :
            /\ start_processing(requests, rid, backend, now) = requests
            /\ complete(requests, rid, success, now) = requests)
    /\ [][\A rid \in Unknown :
             (\/ \E backend \in BackendUrls : TrackerStart(rid, backend)
              \/ \E success \in BOOLEAN : TrackerComplete(rid, success))
             => UNCHANGED <<requests, session_turn_counters>>]_vars

\* an evicted id, another request in the store and a session counter
C33_Witness ==
    /\ DOMAIN evicted \ DOMAIN requests # {}
    /\ DOMAIN requests # {}
    /\ DOMAIN session_turn_counters # {}

\* ------------------------------------------------ claims on SpecPoll
RaisedOps ==
    {"get_slurm_jobs_raised", "add_tunnel_raised", "add_backend_raised",
     "remove_backend_raised", "remove_tunnel_raised"}

\* the step is a call of the poll thread that raises
Raises ==
    /\ calls' # calls
    /\ calls' # <<>>
    /\ calls'[Len(calls')][1] \in RaisedOps

\* C34: a step of the tick that raises leaves the known set as it was, and
\* the known set is not written while the tick is under way, so it keeps the
\* value it had before the tick; the thread is back at its wait for the next
\* tick, and the additions and removals the tick had not finished are among
\* those of a next tick that enumerates the same endpoints.
C34_RaisedTickKeepsKnown ==
    [][/\ Raises =>
             /\ known_endpoints' = known_endpoints
             /\ poll'.pc = "wait"
             /\ poll.pc # "wait" =>
                    /\ poll.added \subseteq poll.current \ known_endpoints'
                    /\ poll.removed \subseteq known_endpoints' \ poll.current
       /\ (poll.pc # "wait" /\ poll'.pc # "wait") =>
             known_endpoints' = known_endpoints]_vars

\* a tick that added one endpoint and removed another up to remove_tunnel,
\* which raised
C34_Witness ==
    /\ poll.pc = "wait"
    /\ Len(calls) = 4
    /\ calls[2][1] = "add_backend"
    /\ calls[4][1] = "remove_tunnel_raised"
    /\ known_endpoints # {}

\* ------------------------------------------------ claims on SpecShared
\* some pool holds a backend at (host, port)
Held(objs, ps, host, port) ==
    \E id \in Members(ps) : url(objs[id]) = <<host, port>>

\* the pool's backends in order, without those at (host, port)
Others(objs, pool, host, port) ==
    LET Keep(id) == url(objs[id]) # <<host, port>> IN SelectSeq(pool.backends, Keep)

\* C35: the proxy's remove_backend(host, port) returns true exactly when some
\* pool held a backend at (host, port); afterwards no pool holds one, every
\* pool is still there with its other backends in their order, and those
\* backends are as they were.
C35_RemovedFromEveryPool ==
    [][\A h \in Hosts, p \in Ports :
          remove_backend(h, p) =>
             /\ proxy_remove_backend_returns(backend_objs, pools, h, p)
                   = Held(backend_objs, pools, h, p)
             /\ ~Held(backend_objs', pools', h, p)
             /\ Len(pools') = Len(pools)
             /\ \A i \in 1..Len(pools) :
                   /\ pools'[i].model = pools[i].model
                   /\ pools'[i].backends = Others(backend_objs, pools[i], h, p)
             /\ \A id \in Members(pools') : backend_objs'[id] = backend_objs[id]]_vars

\* the shared address has been removed from both pools, the other backend of
\* the first pool is in place
C35_Witness ==
    /\ Len(pools) = 2
    /\ pools[2].backends = <<>>
    /\ pools[1].backends = <<SlotOf("m1", Endpoints[2][2], Endpoints[2][3])>>

\* ------------------------------------------------ claims on SpecBuild
\* the name ends in _<digits>: the pieces before the "_" and the digits
Suffixed(name) ==
    {<<SubSeq(name, 1, k - 1), SubSeq(name, k + 1, Len(name))>> :
        k \in {i \in 1..Len(name) :
                  /\ name[i] = "_"
                  /\ i < Len(name)
                  /\ \A j \in (i + 1)..Len(name) : name[j] \in Digits}}

\* what the claim gives a job whose command is made of `parts`: the endpoint,
\* no endpoint, or either where it says nothing (a health URL that answers
\* with an error status)
Stated(job, parts) ==
    LET name  == parts[3]
        split == Suffixed(name)
        model == IF split = {} THEN name ELSE (CHOOSE sp \in split : TRUE)[1]
        idx   == IF split = {} THEN 0 ELSE IntOf((CHOOSE sp \in split : TRUE)[2])
    IN  IF job.command = <<>> \/ model \notin DOMAIN ModelConfigs \/ job.health = None
        THEN {NoEndpoint}
        ELSE LET e == <<ModelConfigs[model].name, job.node,
                        ModelConfigs[model].port + idx * 10, job.partition>>
             IN  IF job.health = 200 THEN {e} ELSE {e, NoEndpoint}

\* C36: _build_endpoint gives a job (model, node, base port + 10 * replica
\* index, partition), the model and the replica index read off the stem of
\* the command with a leading start_vllm_ stripped and a trailing _<digits>
\* split off, and gives nothing for an empty command, a model that is not
\* configured or a health URL that does not answer; _build_endpoints returns
\* exactly the endpoints given.
C36_EndpointOfJob ==
    /\ \A i \in 1..Len(built.rows) :
          \A parts \in CommandParts :
             CommandOf(parts) = built.rows[i].command =>
                build_endpoint(built.rows[i]) \in Stated(built.rows[i], parts)
    /\ (built.pc = "returned" /\ Len(built.rows) = 1) =>
          \A parts \in CommandParts :
             CommandOf(parts) = built.rows[1].command =>
                (IF built.endpoints = <<>> THEN NoEndpoint ELSE built.endpoints[1])
                    \in Stated(built.rows[1], parts)

\* the second replica of m1, started from a script in a directory, was found
\* at its port
C36_Witness ==
    /\ built.pc = "returned"
    /\ Len(built.rows) = 1
    /\ built.rows[1].command = <<"/", "d", "/">> \o StartVllm \o <<"m1", "_", "1", ".", "sh">>
    /\ built.endpoints = <<<<"m1", "n1", Endpoints[2][3], "p1">>>>

\* ------------------------------------------------ claims on SpecMoved
\* the latest tick enumerated endpoints and ran to line 266
Completed ==
    /\ poll.pc = "wait"
    /\ poll.jobs = "found"
    /\ poll.current = known_endpoints
    /\ calls = <<>> \/ LastCall[1] \notin RaisedOps

\* the endpoint's pool holds a backend at its local port and its tunnel is open
Served(e) ==
    /\ \E i \in 1..Len(pools) :
          /\ pools[i].model = e[1]
          /\ \E id \in Range(pools[i].backends) :
                url(backend_objs[id]) = <<"localhost", e[3]>>
    /\ TunnelKey(e) \in procs

\* C37 as stated: after a tick that ran to completion, every endpoint it
\* enumerated is served, also when the tick removed a known endpoint with the
\* same port.
C37_EnumeratedAreServed ==
    Completed => \A e \in poll.current : Served(e)

\* ------------------------------------------------ claims on SpecHealth
Counters(b) == <<b.consecutive_timeouts, b.inflight, b.request_count, b.error_count>>

\* C38: a health probe of a backend and the add_backend of a backend that is
\* registered already leave its consecutive_timeouts, inflight, request_count
\* and error_count as they were; a backend's consecutive_timeouts returns to 0
\* only in the step in which a handler serving a request on it receives the
\* upstream's response, whatever its status.
C38_ProbeKeepsCounters ==
    [][/\ \A id \in HeapIds, res \in ProbeResults :
             check_single_backend(id, res) =>
                Counters(backend_objs'[id]) = Counters(backend_objs[id])
       /\ \A id \in Members(pools) :
             add_backend("m1", backend_objs[id].host, backend_objs[id].port, "p1") =>
                Counters(backend_objs'[id]) = Counters(backend_objs[id])
       /\ \A id \in Members(pools) :
             (/\ backend_objs[id].consecutive_timeouts > 0
              /\ backend_objs'[id].consecutive_timeouts = 0) =>
                \E s \in 1..MaxHandlers :
                   /\ task[s].pc = "upstream"
                   /\ task[s].backend = id
                   /\ task'[s].pc = "idle"
                   /\ responses'[task[s].rid].upstream # None]_vars

\* the backend went out of service on its third timeout and was registered
\* again: it is healthy with the count where it was
C38_Witness ==
    \E id \in Members(pools) :
        /\ recent[id].since = "registered"
        /\ backend_objs[id].healthy
        /\ backend_objs[id].consecutive_timeouts >= TIMEOUT_THRESHOLD
        /\ backend_objs[id].error_count >= TIMEOUT_THRESHOLD

\* ------------------------------------------------ claims on SpecPool
\* handler s returns in this step from a request it had a backend for
Releases(s) == task[s].pc = "upstream" /\ task'[s].pc = "idle"

\* handler s acquires backend id in this step
AcquiredBy(s, id) ==
    /\ task[s].pc # "upstream"
    /\ task'[s].pc = "upstream"
    /\ task'[s].backend = id

NamedPool(map, model) == LookupPool(pools, map, model)

\* C40: every pool stays in the proxy under its name, with or without
\* backends, through add_backend, remove_backend and model discovery; every
\* value of the model -> pool map names a pool; and a request whose model
\* names a pool, directly or through the map, that has no backends is
\* answered 503.
C40_PoolsAreNeverDeleted ==
    /\ [](\A id \in DOMAIN model_to_pool : PoolPos(pools, model_to_pool[id]) # 0)
    /\ [][/\ Len(pools') >= Len(pools)
           /\ \A i \in 1..Len(pools) : pools'[i].model = pools[i].model
           /\ \A s \in {MinOf(FreeSlots \cup {MaxHandlers})}, model \in SharedModels :
                 (/\ Begin(s, model, "send")
                  /\ NamedPool(model_to_pool, model) # 0
                  /\ pools[NamedPool(model_to_pool, model)].backends = <<>>) =>
                    responses'[total_requests'].status = 503
           /\ \A h \in 1..MaxHandlers :
                 (/\ task[h].pc = "fetch"
                  /\ task'[h].pc = "idle"
                  /\ NamedPool(model_to_pool', task[h].model) # 0
                  /\ pools[NamedPool(model_to_pool', task[h].model)].backends = <<>>) =>
                    responses'[task[h].rid].status = 503]_vars

\* pool m2 has lost its only backend after discovery mapped an id to it, and
\* a request has been answered 503 for want of a backend
C40_Witness ==
    /\ Len(pools) = 2
    /\ pools[2].backends = <<>>
    /\ "M1" \in DOMAIN model_to_pool
    /\ model_to_pool["M1"] = pools[2].model
    /\ \E rid \in DOMAIN responses :
          responses[rid].status = 503 /\ responses[rid].via = "no_backend"

====
